---- MODULE Spec2Model ----
(***************************************************************************)
(* Document session synchronizer of the prototype code tab                 *)
(* (frontend/src/components/organisms/PrototypeTabCode.tsx): the editable  *)
(* buffer `code`, its persisted copy `savedCode`, the editor type, the     *)
(* heartbeat, saveCodeToDb and the prototype effect, together with the     *)
(* remote prototype store the writes go to.                                *)
(*                                                                         *)
(* A text is a sequence of one-character strings, so that String.trim and  *)
(* JSON.parse are computed on it.  An optional text (string | undefined)   *)
(* is a record [def, s].                                                   *)
(***************************************************************************)
EXTENDS Integers, Sequences, FiniteSets, TLC

VARIABLES
    prototype,   \* useModelStore state.prototype: the active-document record
    code,        \* useState code: currentText
    savedCode,   \* useState savedCode: lastPersistedText
    editorType,  \* useState editorType: contentMode, "project" | "code"
    ticker,      \* useState ticker
    remote,      \* the remote prototype store: id -> persisted code
    inflight,    \* updatePrototypeService calls awaiting their response
    issued,      \* number of updatePrototypeService calls made so far
    lastOp,      \* history: the operation that produced this state
    hb,          \* history: the last heartbeat's write and the one before it
    lastOk,      \* history: the write whose success was applied last
    uncaught,    \* an exception has escaped saveCodeToDb
    observe,     \* the history variables this specification records
    input,       \* SpecMode: the text handed to getEditorType
    mode,        \* SpecMode: what getEditorType returned for it
    selectedAddOn,   \* DaGenAI_Base useState selectedAddOn
    prompt,          \* DaGenAI_Base useState prompt
    loading,         \* DaGenAI_Base useState loading
    addonsLoaded,    \* DaGenAI_Base useState addonsLoaded
    canUseGenAI,     \* usePermissionHook([PERMISSIONS.USE_GEN_AI])
    hasGenAIAssets,  \* DaGenAI_Base useState hasGenAIAssets
    siteEndpoint,    \* site configuration value of GENAI_SDV_APP_ENDPOINT
    call,            \* the selectedAddOn and prompt handleGenerate closed over
    genPc,           \* where the running handleGenerate is suspended
    trace,           \* history: what the running handleGenerate has done
    type,               \* DaGenAI_Base prop type
    builtInAddOns,      \* DaGenAI_Base useState builtInAddOns
    marketplaceAddOns,  \* useListMarketplaceAddOns(type) data
    assets,             \* useFetchAssets() data
    userAIAddons,       \* DaGenAI_Base useState userAIAddons
    stored,             \* localStorage item 'lastUsed_GenAIGenerator'
    endpointLoad,       \* loadBuiltInAddOnsEndpoint: "pending" | "done"
    effectFault,        \* the selection effect threw: nothing caught it
    dbConfigs,       \* configManagementService: the site configs, as listed
    resetQueue,      \* handleFactoryReset: allConfigs.results not yet visited
    sitePc,          \* PublicConfigSection: "idle" | "reset"
    deleteRequests,  \* history: ids deleteConfigById was called with, and
                     \* how each call ended, in the running handler
    siteOp           \* history: the handler that ran last and its input

catVars == <<type, builtInAddOns, marketplaceAddOns, assets, userAIAddons,
             stored, endpointLoad>>

siteVars == <<dbConfigs, resetQueue, sitePc, deleteRequests, siteOp>>

genVars == <<selectedAddOn, prompt, loading, addonsLoaded, canUseGenAI,
             hasGenAIAssets, siteEndpoint, call, genPc, trace, catVars,
             effectFault, siteVars>>

vars == <<prototype, code, savedCode, editorType, ticker, remote, inflight,
          issued, lastOp, hb, lastOk, uncaught, observe, input, mode,
          genVars>>

syncVars == <<prototype, code, savedCode, editorType, ticker, remote,
              inflight, issued, lastOp, hb, lastOk, uncaught, observe>>

(***************************************************************************)
(* Bounds                                                                  *)
(***************************************************************************)
MaxWrites == 2

MaxTicks == 2

MaxLen == 4

(***************************************************************************)
(* Texts                                                                   *)
(***************************************************************************)
\* "~" stands for U+00A0: white space for String.prototype.trim, not for JSON.
Alphabet == {"[", "]", "{", "}", ",", "1", " ", "~", "p", "\""}

JsonWs == {" "}

TrimWs == {" ", "~"}

Digits == {"1"}

Empty == << >>

T_array == <<"[", "]">>

T_python == <<"p">>

\* The texts the editors, the generator and the store's initial content use.
TextSet == {Empty, T_array, T_python}

Undef == [def |-> FALSE, s |-> Empty]

Str(t) == [def |-> TRUE, s |-> t]

\* JavaScript falsiness of a string | undefined value: !v
Falsy(v) == ~v.def \/ v.s = Empty

\* v || ''
OrEmpty(v) == IF Falsy(v) THEN Empty ELSE v.s

(***************************************************************************)
(* String.prototype.trim                                                   *)
(***************************************************************************)
RECURSIVE TrimStart(_)
TrimStart(s) ==
    IF s # Empty /\ Head(s) \in TrimWs THEN TrimStart(Tail(s)) ELSE s

RECURSIVE TrimEnd(_)
TrimEnd(s) ==
    IF s # Empty /\ s[Len(s)] \in TrimWs
    THEN TrimEnd(SubSeq(s, 1, Len(s) - 1))
    ELSE s

Trim(s) == TrimEnd(TrimStart(s))

(***************************************************************************)
(* JSON.parse, as a recogniser that also reports the kind of the value.    *)
(* A result is [ok, next, kind]: next is the index after the value.        *)
(***************************************************************************)
ParseFail == [ok |-> FALSE, next |-> 0, kind |-> "none"]

Parsed(k, n) == [ok |-> TRUE, next |-> n, kind |-> k]

RECURSIVE SkipWs(_, _)
SkipWs(s, i) ==
    IF i <= Len(s) /\ s[i] \in JsonWs THEN SkipWs(s, i + 1) ELSE i

RECURSIVE ScanDigits(_, _)
ScanDigits(s, i) ==
    IF i <= Len(s) /\ s[i] \in Digits THEN ScanDigits(s, i + 1) ELSE i

\* From inside a string literal: the index after its closing quote, 0 if none.
RECURSIVE ScanString(_, _)
ScanString(s, i) ==
    IF i > Len(s) THEN 0
    ELSE IF s[i] = "\"" THEN i + 1
    ELSE ScanString(s, i + 1)

RECURSIVE ParseValue(_, _)
RECURSIVE ParseElements(_, _)
RECURSIVE ParseMembers(_, _)

ParseValue(s, i) ==
    IF i > Len(s) THEN ParseFail
    ELSE IF s[i] = "["
         THEN LET j == SkipWs(s, i + 1)
              IN  IF j <= Len(s) /\ s[j] = "]"
                  THEN Parsed("array", j + 1)
                  ELSE ParseElements(s, j)
    ELSE IF s[i] = "{"
         THEN LET j == SkipWs(s, i + 1)
              IN  IF j <= Len(s) /\ s[j] = "}"
                  THEN Parsed("object", j + 1)
                  ELSE ParseMembers(s, j)
    ELSE IF s[i] = "\""
         THEN LET j == ScanString(s, i + 1)
              IN  IF j = 0 THEN ParseFail ELSE Parsed("string", j)
    ELSE IF s[i] \in Digits
         THEN Parsed("number", ScanDigits(s, i))
    ELSE ParseFail

\* At the first character of an array element; ends after the closing "]".
ParseElements(s, i) ==
    LET v == ParseValue(s, i)
    IN  IF ~v.ok THEN ParseFail
        ELSE LET j == SkipWs(s, v.next)
             IN  IF j > Len(s) THEN ParseFail
                 ELSE IF s[j] = "]" THEN Parsed("array", j + 1)
                 ELSE IF s[j] = ","
                      THEN ParseElements(s, SkipWs(s, j + 1))
                 ELSE ParseFail

\* At the first character of an object member; ends after the closing "}".
ParseMembers(s, i) ==
    IF i > Len(s) \/ s[i] # "\"" THEN ParseFail
    ELSE LET k == ScanString(s, i + 1)
             c == SkipWs(s, k)
         IN  IF k = 0 \/ c > Len(s) \/ s[c] # ":" THEN ParseFail
             ELSE LET v == ParseValue(s, SkipWs(s, c + 1))
                  IN  IF ~v.ok THEN ParseFail
                      ELSE LET j == SkipWs(s, v.next)
                           IN  IF j > Len(s) THEN ParseFail
                               ELSE IF s[j] = "}"
                                    THEN Parsed("object", j + 1)
                               ELSE IF s[j] = ","
                                    THEN ParseMembers(s, SkipWs(s, j + 1))
                               ELSE ParseFail

JSONparse(s) ==
    LET v == ParseValue(s, SkipWs(s, 1))
    IN  IF v.ok /\ SkipWs(s, v.next) = Len(s) + 1 THEN v ELSE ParseFail

\* Array.isArray(parsed)
IsArray(p) == p.kind = "array"

getEditorType_NoArrayCheck(content) ==
    IF content = Empty \/ Trim(content) = Empty THEN "code"
    ELSE IF JSONparse(content).ok THEN "project" ELSE "code"

getEditorType(content) ==
    IF content = Empty \/ Trim(content) = Empty THEN "code"
    ELSE LET parsed == JSONparse(content)
         IN  IF parsed.ok /\ IsArray(parsed) THEN "project" ELSE "code"

(***************************************************************************)
(* Documents and the remote store                                          *)
(***************************************************************************)
Docs == {"A", "B"}

NoPrototype == [open |-> FALSE, id |-> "", code |-> Undef]

\* A prototype record that carries no id (prototype?.id is falsy).
IdlessPrototype == [open |-> TRUE, id |-> "", code |-> Str(T_array)]

\* The record the model store holds after a document is loaded.
Loaded(d) == [open |-> TRUE, id |-> d, code |-> remote[d]]

\* prototype?.id
HasId_OpenOnly(p) == p.open

HasId(p) == p.open /\ p.id # ""

Request(n, d, t, o) == [seq |-> n, id |-> d, text |-> t, origin |-> o]

NoRequest == Request(0, "", Empty, "none")

\* updatePrototypeService(prototype.id, { code: dataToSave || '' }), applied
RemoteUpdate_IssueOrder(store, r) ==
    IF lastOk.id = r.id /\ lastOk.seq > r.seq
    THEN store
    ELSE [store EXCEPT ![r.id] = Str(OrEmpty(Str(r.text)))]

RemoteUpdate(store, r) == [store EXCEPT ![r.id] = Str(OrEmpty(Str(r.text)))]

(***************************************************************************)
(* saveCodeToDb                                                            *)
(***************************************************************************)
Stop == [stop |-> TRUE, data |-> Empty]

Data(t) == [stop |-> FALSE, data |-> t]

DataToSave_NoDirtyCheck(codeToSave) ==
    IF codeToSave.def
    THEN IF Falsy(codeToSave) THEN Stop ELSE Data(codeToSave.s)
    ELSE IF Falsy(code) THEN Stop ELSE Data(code.s)

DataToSave_ExplicitDirtyCheck(codeToSave) ==
    IF codeToSave.def
    THEN IF Falsy(codeToSave) \/ codeToSave = savedCode
         THEN Stop ELSE Data(codeToSave.s)
    ELSE IF Falsy(code) \/ code = savedCode THEN Stop ELSE Data(code.s)

DataToSave_SavesPersisted(codeToSave) ==
    IF codeToSave.def
    THEN IF Falsy(codeToSave) THEN Stop ELSE Data(codeToSave.s)
    ELSE IF Falsy(code) \/ code = savedCode THEN Stop
         ELSE Data(OrEmpty(savedCode))

\* The choice of dataToSave; codeToSave is Undef for the periodic call.
DataToSave(codeToSave) ==
    IF codeToSave.def
    THEN IF Falsy(codeToSave) THEN Stop ELSE Data(codeToSave.s)
    ELSE IF Falsy(code) \/ code = savedCode THEN Stop ELSE Data(code.s)

\* The request saveCodeToDb(codeToSave) sends, NoRequest when it returns early.
WriteOf(codeToSave, origin) ==
    LET sel == DataToSave(codeToSave)
    IN  IF sel.stop \/ ~HasId(prototype)
        THEN NoRequest
        ELSE Request(issued + 1, prototype.id, sel.data, origin)

\* newPrototype: a deep copy of the captured prototype with code replaced
NewPrototype_CurrentRecord(r) ==
    [open |-> TRUE, id |-> prototype.id, code |-> Str(OrEmpty(Str(r.text)))]

NewPrototype_StaleCode(r) == [open |-> TRUE, id |-> r.id, code |-> savedCode]

NewPrototype(r) ==
    [open |-> TRUE, id |-> r.id, code |-> Str(OrEmpty(Str(r.text)))]

\* The catch branch: console.error, nothing else.
OnSaveError_MarksSaved(r) ==
    [code |-> code, savedCode |-> Str(r.text), prototype |-> prototype,
     thrown |-> FALSE]

OnSaveError(r) ==
    [code |-> code, savedCode |-> savedCode, prototype |-> prototype,
     thrown |-> FALSE]

(***************************************************************************)
(* The effect on [prototype]                                               *)
(***************************************************************************)
PrototypeEffect_KeepsSaved(p) ==
    IF ~p.open
    THEN [code |-> Undef, savedCode |-> Undef, editorType |-> "code"]
    ELSE [code |-> Str(OrEmpty(p.code)), savedCode |-> savedCode,
          editorType |-> getEditorType(OrEmpty(p.code))]

PrototypeEffect(p) ==
    IF ~p.open
    THEN [code |-> Undef, savedCode |-> Undef, editorType |-> "code"]
    ELSE LET prototypeCode == OrEmpty(p.code)
         IN  [code |-> Str(prototypeCode), savedCode |-> Str(prototypeCode),
              editorType |-> getEditorType(prototypeCode)]

(***************************************************************************)
(* History records                                                         *)
(***************************************************************************)
Op(k, arg, r, late) ==
    [kind |-> k, arg |-> arg, wrote |-> r.seq # 0, seq |-> r.seq,
     id |-> r.id, text |-> r.text, late |-> late, stale |-> FALSE]

NoTick == [valid |-> FALSE, state |-> "none", edited |-> FALSE]

\* A history variable takes its new value only where it is recorded.
Recorded(name, new, old) == IF name \in observe THEN new ELSE old

(***************************************************************************)
(* Generation dispatcher (components/molecules/genAI/DaGenAI_Base.tsx):    *)
(* descriptors, requests, responses                                        *)
(***************************************************************************)
\* The JavaScript value undefined of a string-valued field.
Undefined == "<undefined>"

\* v || d for a string-valued field
OrDefault(v, d) == IF v = Undefined \/ v = "" THEN d ELSE v

\* `${v}`
TemplateString(v) == IF v = Undefined THEN "undefined" ELSE v

M_GET == <<"G", "E", "T">>

M_Post == <<" ", "P", "o", "s", "t", " ">>

M_PUT == <<"P", "U", "T">>

Methods == {Undef, Str(M_GET), Str(M_Post), Str(M_PUT)}

UpperCase ==
    <<"A", "B", "C", "D", "E", "F", "G", "H", "I", "J", "K", "L", "M",
      "N", "O", "P", "Q", "R", "S", "T", "U", "V", "W", "X", "Y", "Z">>

LowerCase ==
    <<"a", "b", "c", "d", "e", "f", "g", "h", "i", "j", "k", "l", "m",
      "n", "o", "p", "q", "r", "s", "t", "u", "v", "w", "x", "y", "z">>

\* String.prototype.toLowerCase
ToLowerCase(s) ==
    [i \in 1..Len(s) |->
        IF \E j \in 1..Len(UpperCase) : UpperCase[j] = s[i]
        THEN LowerCase[CHOOSE j \in 1..Len(UpperCase) : UpperCase[j] = s[i]]
        ELSE s[i]]

\* selectedAddOn.method?.toLowerCase().trim()
NormalizedMethod(a) ==
    IF a.method.def THEN Str(Trim(ToLowerCase(a.method.s))) ELSE Undef

\* 'SDV Copilot'
ReservedName == <<"S", "D", "V", " ", "C", "o", "p", "i", "l", "o", "t">>

N_sdv_copilot == <<"s", "d", "v", " ", "c", "o", "p", "i", "l", "o", "t">>

N_Gen == <<"G", "e", "n">>

\* A descriptor without a customPayload function.
NoBuilder == "<no customPayload>"

RealAddOns ==
    [isMock : {FALSE},
     id : {"g1"},
     name : {ReservedName, N_sdv_copilot, N_Gen},
     endpointUrl : {"", "https://e"},
     apiKey : {"tok"},
     method : Methods,
     requestField : {Undefined, "q"},
     responseField : {Undefined, "out"},
     samples : {Undef, Str(<<"S">>)},
     customPayload : {NoBuilder}]

MockAddOns ==
    [isMock : {TRUE},
     id : {"g1"},
     name : {N_Gen},
     endpointUrl : {"", "https://e"},
     apiKey : {"tok"},
     method : {Str(M_GET)},
     requestField : {Undefined},
     responseField : {Undefined},
     samples : {Undef},
     customPayload : {NoBuilder}]

AddOns == RealAddOns \cup MockAddOns

\* selectedAddOn === undefined
NoAddOn ==
    [isMock |-> FALSE, id |-> Undefined, name |-> <<>>,
     endpointUrl |-> Undefined, apiKey |-> Undefined, method |-> Undef,
     requestField |-> Undefined, responseField |-> Undefined,
     samples |-> Undef, customPayload |-> NoBuilder]

T_hi == <<"h", "i">>

T_query == <<"a", " ", "&", "b">>

Prompts == {Empty, T_hi, T_query}

\* Values of GENAI_SDV_APP_ENDPOINT: '' when it is not configured.
SiteEndpoints == {"", "https://sdv"}

(***************************************************************************)
(* encodeURIComponent                                                      *)
(***************************************************************************)
Unreserved == {"a", "b", "h", "i", "-", "_", ".", "!", "~", "*", "'", "(", ")"}

HexOf(c) ==
    CASE c = " " -> <<"2", "0">>
      [] c = "%" -> <<"2", "5">>
      [] c = "&" -> <<"2", "6">>
      [] c = "=" -> <<"3", "D">>
      [] c = "?" -> <<"3", "F">>

encodeURIComponent_Raw(s) == s

RECURSIVE encodeURIComponent(_)
encodeURIComponent(s) ==
    IF s = Empty THEN Empty
    ELSE (IF Head(s) \in Unreserved THEN <<Head(s)>>
          ELSE <<"%">> \o HexOf(Head(s)))
         \o encodeURIComponent(Tail(s))

(***************************************************************************)
(* Requests                                                                *)
(***************************************************************************)
NoHeader == "<no header>"

NoBody == [x \in {} |-> Empty]

\* selectedAddOn.requestField || 'prompt'
RequestField(a) == OrDefault(a.requestField, "prompt")

ResponseField_NoDefault(a) == a.responseField

\* selectedAddOn.responseField || 'data'
ResponseField(a) == OrDefault(a.responseField, "data")

\* axios.get(endpointUrl + `?${requestField}=${encodeURIComponent(prompt)}`)
GetRequest(a, p) ==
    [verb |-> "GET",
     url |-> <<a.endpointUrl, "?", RequestField(a), "=">>
             \o encodeURIComponent(p),
     authorization |-> TemplateString(a.apiKey),
     contentType |-> "application/json",
     body |-> NoBody]

\* payload = { systemMessage: samples || '' }; payload[requestField] = prompt
PostRequest(a, p) ==
    [verb |-> "POST",
     url |-> <<a.endpointUrl>>,
     authorization |-> TemplateString(a.apiKey),
     contentType |-> "application/json",
     body |-> (RequestField(a) :> p)
              @@ [k \in {"systemMessage"} |-> OrEmpty(a.samples)]]

\* axios.post(endpointUrl, { systemMessage, message: prompt })
FallbackRequest_WithToken(a, p, endpointUrl) ==
    [verb |-> "POST",
     url |-> <<endpointUrl>>,
     authorization |-> TemplateString(a.apiKey),
     contentType |-> "application/json",
     body |-> [systemMessage |-> OrEmpty(a.samples), message |-> p]]

FallbackRequest(a, p, endpointUrl) ==
    [verb |-> "POST",
     url |-> <<endpointUrl>>,
     authorization |-> NoHeader,
     contentType |-> "application/json",
     body |-> [systemMessage |-> OrEmpty(a.samples), message |-> p]]

(***************************************************************************)
(* Responses: response.data is null or an object whose fields content,     *)
(* data and out are absent, the empty string or a non-empty string.        *)
(***************************************************************************)
Absent == [has |-> FALSE, v |-> ""]

Present(v) == [has |-> TRUE, v |-> v]

FieldNames == <<"content", "data", "out">>

FieldValues(f) == {Absent, Present(""), Present("CODE:" \o f)}

Bodies ==
    {[isNull |-> TRUE, content |-> Absent, data |-> Absent, out |-> Absent]}
    \cup [isNull : {FALSE}, content : FieldValues("content"),
          data : FieldValues("data"), out : FieldValues("out")]

\* response.data[f]
Field(body, f) ==
    IF f \in {"content", "data", "out"} THEN body[f] ELSE Absent

\* JavaScript truthiness of a field's value
Truthy(x) == x.has /\ x.v # ""

\* The text a string value is: '' is the empty text.
TextOf(v) == IF v = "" THEN Empty ELSE <<v>>

\* A settled request: a response body, or a rejection (network error or
\* non-2xx status) with error.response?.data?.message or without.
Outcomes ==
    {[ok |-> TRUE, body |-> b, axios |-> FALSE, message |-> Undefined] :
        b \in Bodies}
    \cup {[ok |-> FALSE, body |-> CHOOSE b \in Bodies : b.isNull,
           axios |-> TRUE, message |-> m] : m \in {Undefined, "boom"}}

\* The fields a body has, in order.
Members(body) ==
    IF body.isNull THEN <<>>
    ELSE SelectSeq(FieldNames, LAMBDA f : body[f].has)

RECURSIVE CompactMembers(_, _)
CompactMembers(body, fs) ==
    IF fs = <<>> THEN <<>>
    ELSE <<"\"" \o Head(fs) \o "\":", "\"" \o body[Head(fs)].v \o "\"">>
         \o (IF Tail(fs) = <<>> THEN <<>> ELSE <<",">>)
         \o CompactMembers(body, Tail(fs))

\* JSON.stringify(response.data)
Stringify(body) ==
    IF body.isNull THEN <<"null">>
    ELSE <<"{">> \o CompactMembers(body, Members(body)) \o <<"}">>

RECURSIVE PrettyMembers(_, _)
PrettyMembers(body, fs) ==
    IF fs = <<>> THEN <<>>
    ELSE <<"\n    ", "\"" \o Head(fs) \o "\": ",
           "\"" \o body[Head(fs)].v \o "\"">>
         \o (IF Tail(fs) = <<>> THEN <<"\n">> ELSE <<",">>)
         \o PrettyMembers(body, Tail(fs))

\* JSON.stringify(response.data, null, 4)
StringifyPretty(body) ==
    IF body.isNull THEN <<"null">>
    ELSE <<"{">> \o PrettyMembers(body, Members(body)) \o <<"}">>

DiagnosticHeader == "Error: Receive incorrect format data\r\n"

\* The text the GET and POST branches hand to onCodeGenerated.
OwnResult(a, body) ==
    IF ~body.isNull /\ Truthy(Field(body, ResponseField(a)))
    THEN TextOf(Field(body, ResponseField(a)).v)
    ELSE <<DiagnosticHeader>> \o StringifyPretty(body)

\* response.data.content || response.data.data || JSON.stringify(response.data)
FallbackResult(body) ==
    IF Truthy(body.content) THEN TextOf(body.content.v)
    ELSE IF Truthy(body.data) THEN TextOf(body.data.v)
    ELSE Stringify(body)

(***************************************************************************)
(* Initial state: mounted with no active prototype                         *)
(***************************************************************************)
\* Document A holds a project (an array); document B has no code yet.
InitialRemote == [d \in Docs |-> IF d = "A" THEN Str(T_array) ELSE Undef]

(***************************************************************************)
(* Add-on catalog (DaGenAI_Base.tsx): built-ins, marketplace, merge,       *)
(* visibility filter, remembered selection                                 *)
(***************************************************************************)
\* GenAI_Widget takes every branch GenAI_Dashboard takes.
ComponentTypes == {"GenAI_Python", "GenAI_Dashboard"}

M_POST == <<"P", "O", "S", "T">>

\* customPayload functions, told apart by where they were written.
BuiltInBuilder == "built-in (prompt) => ({ prompt })"

DefaultBuilder == "merge default (prompt) => ({ prompt })"

MarketBuilder == "marketplace customPayload"

UserBuilder == "user add-on (prompt) => ({ prompt })"

\* The built-in SDV Copilot descriptor with endpoint e.
SdvCopilotBuiltIn(e) ==
    [isMock |-> FALSE, id |-> "sdv-copilot-builtin", name |-> ReservedName,
     endpointUrl |-> e, apiKey |-> "Empty", method |-> Str(M_POST),
     requestField |-> "prompt", responseField |-> "data", samples |-> Undef,
     customPayload |-> BuiltInBuilder]

\* useState initialiser of builtInAddOns
InitialBuiltIns(t) ==
    IF t = "GenAI_Python" THEN <<SdvCopilotBuiltIn("")>> ELSE <<>>

\* The marketplace query has no data yet / has data l.
NoMarketplace == [def |-> FALSE, list |-> <<>>]

Market(l) == [def |-> TRUE, list |-> l]

\* addOn.customPayload || ((prompt) => ({ prompt }))
OrBuilder(b) == IF b = NoBuilder THEN DefaultBuilder ELSE b

\* Array.prototype.find by id: the first match, or undefined
FindById(list, id) ==
    IF \E i \in DOMAIN list : list[i].id = id
    THEN list[CHOOSE i \in DOMAIN list :
                 /\ list[i].id = id
                 /\ \A j \in 1..(i - 1) : list[j].id # id]
    ELSE NoAddOn

mergedBuiltInAddOns_MatchAsIs(builtIns, market) ==
    [i \in DOMAIN builtIns |->
        IF market.def /\ FindById(market.list, builtIns[i].id) # NoAddOn
        THEN FindById(market.list, builtIns[i].id)
        ELSE [builtIns[i] EXCEPT
                 !.customPayload = OrBuilder(builtIns[i].customPayload)]]

\* useMemo mergedBuiltInAddOns
mergedBuiltInAddOns(builtIns, market) ==
    [i \in DOMAIN builtIns |->
        IF market.def /\ FindById(market.list, builtIns[i].id) # NoAddOn
        THEN [FindById(market.list, builtIns[i].id) EXCEPT
                 !.customPayload = OrBuilder(builtIns[i].customPayload)]
        ELSE [builtIns[i] EXCEPT
                 !.customPayload = OrBuilder(builtIns[i].customPayload)]]

\* String.prototype.includes
Includes(s, sub) ==
    \E i \in 0..(Len(s) - Len(sub)) : SubSeq(s, i + 1, i + Len(sub)) = sub

R_sdv_dash_copilot == <<"s", "d", "v", "-", "c", "o", "p", "i", "l", "o", "t">>

\* The test of filteredMarketplaceAddOns' filter callback.
IsVisible_NoReserved(addon, merged) ==
    /\ \A i \in DOMAIN merged : merged[i].id # addon.id
    /\ \A i \in DOMAIN merged :
          ToLowerCase(merged[i].name) # ToLowerCase(addon.name)

IsVisible(addon, merged) ==
    /\ \A i \in DOMAIN merged : merged[i].id # addon.id
    /\ \A i \in DOMAIN merged :
          ToLowerCase(merged[i].name) # ToLowerCase(addon.name)
    /\ ~(\/ Includes(ToLowerCase(addon.name), N_sdv_copilot)
         \/ Includes(ToLowerCase(addon.name), R_sdv_dash_copilot))

\* useMemo filteredMarketplaceAddOns
filteredMarketplaceAddOns(market, merged) ==
    IF ~market.def THEN <<>>
    ELSE SelectSeq(market.list, LAMBDA addon : IsVisible(addon, merged))

OfferedMarketplace_NoGate(market, merged, capable) ==
    filteredMarketplaceAddOns(market, merged)

\* The marketplaceAddOns prop of DaGeneratorSelector.
OfferedMarketplace(market, merged, capable) ==
    IF market.def
    THEN IF capable THEN filteredMarketplaceAddOns(market, merged) ELSE <<>>
    ELSE <<>>

(***************************************************************************)
(* User-defined add-ons: asset.data is JSON text, here a token sequence    *)
(***************************************************************************)
P(x) == [t |-> "punct", v |-> x]

S(x) == [t |-> "string", v |-> x]

IsP(tok, x) == tok.t = "punct" /\ tok.v = x

NoFields == [k \in {} |-> ""]

DataFail == [ok |-> FALSE, isNull |-> FALSE, fields |-> NoFields]

\* The members of an object after its opening brace: "key": "value"
\* separated by commas, closed by a brace that ends the text.
RECURSIVE ParseDataMembers(_, _)
ParseDataMembers(toks, acc) ==
    IF Len(toks) < 4 THEN DataFail
    ELSE IF ~(toks[1].t = "string" /\ IsP(toks[2], ":")
              /\ toks[3].t = "string")
    THEN DataFail
    ELSE IF IsP(toks[4], "}")
    THEN IF Len(toks) = 4
         THEN [ok |-> TRUE, isNull |-> FALSE,
               fields |-> (toks[1].v :> toks[3].v) @@ acc]
         ELSE DataFail
    ELSE IF IsP(toks[4], ",")
    THEN ParseDataMembers(SubSeq(toks, 5, Len(toks)),
                          (toks[1].v :> toks[3].v) @@ acc)
    ELSE DataFail

\* JSON.parse(asset.data)
ParseData(toks) ==
    IF Len(toks) = 1 /\ IsP(toks[1], "null")
    THEN [ok |-> TRUE, isNull |-> TRUE, fields |-> NoFields]
    ELSE IF Len(toks) = 2 /\ IsP(toks[1], "{") /\ IsP(toks[2], "}")
    THEN [ok |-> TRUE, isNull |-> FALSE, fields |-> NoFields]
    ELSE IF Len(toks) > 2 /\ IsP(toks[1], "{")
    THEN ParseDataMembers(Tail(toks), NoFields)
    ELSE DataFail

\* data.k || d for a string-valued property
DataOr(data, k, d) ==
    IF k \in DOMAIN data.fields /\ data.fields[k] # "" THEN data.fields[k]
    ELSE d

\* data.method || 'POST'; method values are spelled out in characters
DataMethodOr(data, d) ==
    IF "method" \in DOMAIN data.fields /\ data.fields["method"] # <<>>
    THEN data.fields["method"]
    ELSE d

\* The characters of a name as one string.
RECURSIVE Join(_)
Join(cs) == IF cs = <<>> THEN "" ELSE Head(cs) \o Join(Tail(cs))

N_My_python_genAI ==
    <<"M", "y", " ", "p", "y", "t", "h", "o", "n", " ", "g", "e", "n", "A", "I">>

UserAddOn_DefaultsInCatch(asset, r) ==
    [isMock |-> FALSE,
     id |-> Join(asset.name) \o "-" \o r,
     name |-> IF asset.name = <<>> THEN N_My_python_genAI ELSE asset.name,
     endpointUrl |-> DataOr(ParseData(asset.data), "url", ""),
     apiKey |-> DataOr(ParseData(asset.data), "accessToken", ""),
     method |-> Str(DataMethodOr(ParseData(asset.data), M_POST)),
     requestField |-> DataOr(ParseData(asset.data), "requestField", "prompt"),
     responseField |-> DataOr(ParseData(asset.data), "responseField", "data"),
     samples |-> Undef,
     customPayload |-> UserBuilder]

\* The descriptor the assets effect builds from one GENAI-PYTHON asset; r
\* is Math.random().toString(36).substring(2, 8).  When JSON.parse throws,
\* or yields null so that data.url throws, the catch block leaves the
\* variables at their initial values.
UserAddOn(asset, r) ==
    IF ParseData(asset.data).ok /\ ~ParseData(asset.data).isNull
    THEN UserAddOn_DefaultsInCatch(asset, r)
    ELSE [isMock |-> FALSE,
          id |-> Join(asset.name) \o "-" \o r,
          name |-> IF asset.name = <<>> THEN N_My_python_genAI
                   ELSE asset.name,
          endpointUrl |-> "",
          apiKey |-> "",
          method |-> Str(M_POST),
          requestField |-> "",
          responseField |-> "",
          samples |-> Undef,
          customPayload |-> UserBuilder]

\* assets.filter((asset) => asset.type === 'GENAI-PYTHON')
PythonGenAIs(list) == SelectSeq(list, LAMBDA a : a.type = "GENAI-PYTHON")

\* localStorage.getItem returned null.
NoStored == [kind |-> "null", value |-> NoAddOn, raw |-> Empty]

\* The item holds text raw that no JSON.stringify of a descriptor wrote.
StoredText(raw) == [kind |-> "text", value |-> NoAddOn, raw |-> raw]

StoredOf_KeepsFunction(addOn) ==
    [kind |-> "json", value |-> addOn, raw |-> Empty]

\* JSON.stringify(addOn): a function-valued property is left out.
StoredOf(addOn) ==
    [kind |-> "json", value |-> [addOn EXCEPT !.customPayload = NoBuilder],
     raw |-> Empty]

\* JSON.parse(storedAddOn) throws a SyntaxError; '' is falsy and is never
\* handed to JSON.parse.
ParseThrows(st) ==
    st.kind = "text" /\ st.raw # Empty /\ ~JSONparse(st.raw).ok

\* storedAddOn ? JSON.parse(storedAddOn) : null
getSelectedGeneratorFromLocalStorage(st) ==
    IF st.kind = "json" THEN st.value ELSE NoAddOn

RestoreSelection_IgnoresStore(sel, st, merged) ==
    IF Len(merged) > 0 THEN merged[1] ELSE sel

\* The body of the selection effect when addonsLoaded holds.
RestoreSelection(sel, st, merged) ==
    IF ParseThrows(st) THEN sel
    ELSE IF getSelectedGeneratorFromLocalStorage(st) # NoAddOn
    THEN getSelectedGeneratorFromLocalStorage(st)
    ELSE IF Len(merged) > 0 THEN merged[1]
    ELSE sel

\* The selection effect, run because addonsLoaded or mergedBuiltInAddOns
\* changed.
SelectionEffect(loaded, sel, st, builtIns, market) ==
    IF loaded
    THEN RestoreSelection(sel, st, mergedBuiltInAddOns(builtIns, market))
    ELSE sel

\* The selection effect ends in an exception: JSON.parse is called outside
\* any try block, and no component above catches what an effect throws.
EffectThrows(loaded, st) == loaded /\ ParseThrows(st)

\* The catalog as mounted, with nothing remembered.
CatIdle ==
    /\ type = "GenAI_Python"
    /\ builtInAddOns = InitialBuiltIns("GenAI_Python")
    /\ marketplaceAddOns = NoMarketplace
    /\ assets = [def |-> FALSE, list |-> <<>>]
    /\ userAIAddons = <<>>
    /\ stored = NoStored
    /\ endpointLoad = "pending"

\* No handler of the public configuration section has run; the store's
\* site configs play no part.
NoSiteOp == [kind |-> "none", key |-> "", id |-> "", confirmed |-> FALSE,
             listed |-> FALSE, snapshot |-> <<>>]

SiteIdle ==
    /\ dbConfigs = <<>>
    /\ resetQueue = <<>>
    /\ sitePc = "idle"
    /\ deleteRequests = {}
    /\ siteOp = NoSiteOp

\* No invocation of handleGenerate has captured anything yet.
NoCall == [addOn |-> NoAddOn, prompt |-> Empty]

\* The generation panel as mounted: useState initial values, nothing selected.
GenIdle ==
    /\ selectedAddOn = NoAddOn
    /\ prompt = Empty
    /\ loading = FALSE
    /\ addonsLoaded = FALSE
    /\ canUseGenAI = FALSE
    /\ hasGenAIAssets = FALSE
    /\ siteEndpoint = ""
    /\ call = NoCall
    /\ genPc = "idle"
    /\ trace = <<>>
    /\ effectFault = FALSE
    /\ CatIdle
    /\ SiteIdle

SyncInit ==
    /\ prototype = NoPrototype
    /\ code = Undef
    /\ savedCode = Undef
    /\ editorType = "code"
    /\ ticker = 0
    /\ remote = InitialRemote
    /\ inflight = {}
    /\ issued = 0
    /\ lastOp = Op("mount", Undef, NoRequest, FALSE)
    /\ hb = [valid |-> FALSE, seq |-> 0, state |-> "none", edited |-> FALSE,
             prev |-> NoTick]
    /\ lastOk = NoRequest
    /\ uncaught = FALSE

Init ==
    /\ SyncInit
    /\ observe = {}
    /\ input = Empty
    /\ mode = "none"
    /\ GenIdle

(***************************************************************************)
(* Operations                                                              *)
(***************************************************************************)
\* The interval callback bumps ticker; the effect on [ticker] calls
\* saveCodeToDb().
Heartbeat ==
    LET r == WriteOf(Undef, "tick")
    IN  /\ ticker < MaxTicks
        /\ r.seq # 0 => issued < MaxWrites
        /\ ticker' = ticker + 1
        /\ inflight' = IF r.seq # 0 THEN inflight \cup {r} ELSE inflight
        /\ issued' = IF r.seq # 0 THEN issued + 1 ELSE issued
        /\ lastOp' = Op("tick", Undef, r, FALSE)
        /\ hb' = Recorded("hb",
                  [valid |-> TRUE, seq |-> r.seq,
                   state |-> IF r.seq # 0 THEN "inflight" ELSE "none",
                   edited |-> FALSE,
                   prev |-> [valid |-> hb.valid, state |-> hb.state,
                             edited |-> hb.edited]], hb)
        /\ UNCHANGED <<prototype, code, savedCode, editorType, remote,
                       lastOk, uncaught, observe, input, mode,
                   genVars>>

\* ProjectEditor onSave: saveCodeToDb(data).  The project editor is rendered
\* while a prototype is active and editorType is "project".
ExplicitSave(data) ==
    LET r == WriteOf(Str(data), "save")
    IN  /\ prototype.open
        /\ editorType = "project"
        /\ r.seq # 0 => issued < MaxWrites
        /\ inflight' = IF r.seq # 0 THEN inflight \cup {r} ELSE inflight
        /\ issued' = IF r.seq # 0 THEN issued + 1 ELSE issued
        /\ lastOp' = Op("save", Str(data), r, FALSE)
        /\ UNCHANGED <<prototype, code, savedCode, editorType, ticker,
                       remote, hb, lastOk, uncaught, observe, input, mode,
                   genVars>>

\* CodeEditor onBlur: saveCodeToDb with no text argument.  The code editor is
\* rendered while a prototype is active and editorType is "code".
EditorBlur ==
    LET r == WriteOf(Undef, "blur")
    IN  /\ prototype.open
        /\ editorType = "code"
        /\ r.seq # 0 => issued < MaxWrites
        /\ inflight' = IF r.seq # 0 THEN inflight \cup {r} ELSE inflight
        /\ issued' = IF r.seq # 0 THEN issued + 1 ELSE issued
        /\ lastOp' = Op("blur", Undef, r, FALSE)
        /\ UNCHANGED <<prototype, code, savedCode, editorType, ticker,
                       remote, hb, lastOk, uncaught, observe, input, mode,
                   genVars>>

\* The awaited update resolves: the store holds the text, then setCode,
\* setSavedCode, setActivePrototype(newPrototype) and the effect on
\* [prototype] that the new record triggers.
PersistOk(r) ==
    LET np == NewPrototype(r)
        eff == PrototypeEffect(np)
    IN  /\ r \in inflight
        /\ inflight' = inflight \ {r}
        /\ remote' = RemoteUpdate(remote, r)
        /\ prototype' = np
        /\ code' = eff.code
        /\ savedCode' = eff.savedCode
        /\ editorType' = eff.editorType
        /\ lastOp' = [Op("persistOk", Undef, r,
                           /\ lastOk.id = r.id
                           /\ lastOk.seq > r.seq
                           /\ {lastOk.origin, r.origin} = {"tick", "save"}
                           /\ lastOk.text # r.text)
                        EXCEPT !.stale = ~prototype.open \/ prototype.id # r.id]
        /\ lastOk' = Recorded("lastOk", r, lastOk)
        /\ hb' = IF hb.seq = r.seq THEN [hb EXCEPT !.state = "ok"] ELSE hb
        /\ UNCHANGED <<ticker, issued, uncaught, observe, input, mode,
                   genVars>>

\* The awaited update rejects: the catch branch.
PersistFail(r) ==
    LET e == OnSaveError(r)
    IN  /\ r \in inflight
        /\ inflight' = inflight \ {r}
        /\ code' = e.code
        /\ savedCode' = e.savedCode
        /\ prototype' = e.prototype
        /\ uncaught' = (uncaught \/ e.thrown)
        /\ lastOp' = Op("persistFail", Undef, r, FALSE)
        /\ hb' = IF hb.seq = r.seq THEN [hb EXCEPT !.state = "fail"] ELSE hb
        /\ UNCHANGED <<editorType, ticker, remote, issued, lastOk, observe,
                       input, mode, genVars>>

\* Another document (or none) becomes the active prototype; the effect on
\* [prototype] runs.
SwitchDocument(p) ==
    LET eff == PrototypeEffect(p)
    IN  /\ p.open # prototype.open \/ p.id # prototype.id
        /\ prototype' = p
        /\ code' = eff.code
        /\ savedCode' = eff.savedCode
        /\ editorType' = eff.editorType
        /\ lastOp' = Op("switch", Undef, NoRequest, FALSE)
        /\ UNCHANGED <<ticker, remote, inflight, issued, hb, lastOk,
                       uncaught, observe, input, mode,
                   genVars>>

EditBuffer_MarksSaved(t) ==
    /\ prototype.open
    /\ Str(t) # code
    /\ code' = Str(t)
    /\ savedCode' = Str(t)
    /\ lastOp' = Op("edit", Str(t), NoRequest, FALSE)
    /\ hb' = Recorded("hb", [hb EXCEPT !.edited = TRUE], hb)
    /\ UNCHANGED <<prototype, editorType, ticker, remote,
                   inflight, issued, lastOk, uncaught, observe, input, mode,
                   genVars>>

\* setCode from CodeEditor, ProjectEditor onChange or DaGenAI_Python
\* onCodeChanged; all are rendered only while a prototype is active.
EditBuffer(t) ==
    /\ prototype.open
    /\ Str(t) # code
    /\ code' = Str(t)
    /\ lastOp' = Op("edit", Str(t), NoRequest, FALSE)
    /\ hb' = Recorded("hb", [hb EXCEPT !.edited = TRUE], hb)
    /\ UNCHANGED <<prototype, savedCode, editorType, ticker, remote,
                   inflight, issued, lastOk, uncaught, observe, input, mode,
                   genVars>>

Candidates == {NoPrototype, IdlessPrototype} \cup {Loaded(d) : d \in Docs}

Next ==
    \/ Heartbeat
    \/ \E t \in TextSet : ExplicitSave(t)
    \/ EditorBlur
    \/ \E r \in inflight : PersistOk(r)
    \/ \E r \in inflight : PersistFail(r)
    \/ \E p \in Candidates : SwitchDocument(p)
    \/ \E t \in TextSet : EditBuffer(t)

Spec == Init /\ [][Next]_vars

\* The same program, recording the heartbeat history (hb).
InitTicks ==
    /\ SyncInit
    /\ observe = {"hb"}
    /\ input = Empty
    /\ mode = "none"
    /\ GenIdle

SpecTicks == InitTicks /\ [][Next]_vars

\* The same program, recording the last applied success (lastOk).
InitOrder ==
    /\ SyncInit
    /\ observe = {"lastOk"}
    /\ input = Empty
    /\ mode = "none"
    /\ GenIdle

SpecOrder == InitOrder /\ [][Next]_vars

(***************************************************************************)
(* SpecMode: getEditorType applied to every text of at most MaxLen         *)
(* characters over Alphabet.                                               *)
(***************************************************************************)
SeqsUpTo(n) == UNION {[1..k -> Alphabet] : k \in 0..n}

InitMode ==
    /\ SyncInit
    /\ observe = {}
    /\ input \in SeqsUpTo(MaxLen)
    /\ mode = "none"
    /\ GenIdle

Classify ==
    /\ mode = "none"
    /\ mode' = getEditorType(input)
    /\ UNCHANGED <<input, syncVars, genVars>>

NextMode == Classify

SpecMode == InitMode /\ [][NextMode]_vars

(***************************************************************************)
(* Generation dispatcher: handleGenerate and what invokes it               *)
(***************************************************************************)
\* setTimeout(resolve, 1000)
MockDelay == 1000

\* @/data/default_generated_code
T_default_generated_code == <<"default_generated_code">>

\* One observable effect of an invocation, in the order it happened.
Ev(k, v) == [ev |-> k, val |-> v]

\* onCodeGenerated(''); setLoading(true); onLoadingChange(true)
Prologue == <<Ev("code", Empty), Ev("loading", TRUE)>>

Finally_NoFinish(tr) == tr \o <<Ev("loading", FALSE)>>

\* setLoading(false); onLoadingChange(false); onFinishChange(true)
Finally(tr) == tr \o <<Ev("loading", FALSE), Ev("finished", TRUE)>>

\* A rejected request as the error axios throws.
ErrorOf(o) == [axios |-> TRUE, message |-> o.message]

NotConfigured ==
    [axios |-> FALSE,
     message |-> "GENAI_SDV_APP_ENDPOINT is not configured. Please configure it in Site Management."]

\* Reading a property of null.
TypeError == [axios |-> FALSE, message |-> "TypeError"]

\* catch (err) { console.log(err) }
InnerCatch(tr, err) == tr \o <<Ev("log", err)>>

GenericToast == "Error generating AI content"

\* catch (error) { console.error(...); toast.error(...) }
OuterCatch(tr, err) ==
    tr \o <<Ev("log", err),
            Ev("toast", IF err.axios THEN OrDefault(err.message, GenericToast)
                        ELSE GenericToast)>>

\* The awaits that sit inside a branch's own try block.
InnerTrySites == {"awaitGet", "awaitPost", "awaitConfig", "awaitFallback"}

\* An error thrown while suspended at site reaches the nearest handler.
Thrown(site, tr, err) ==
    IF site \in InnerTrySites THEN InnerCatch(tr, err)
    ELSE OuterCatch(tr, err)

UsesOwnEndpoint_IgnoresName(a) == OrDefault(a.endpointUrl, "") # ""

\* selectedAddOn.endpointUrl && selectedAddOn.name !== 'SDV Copilot'
UsesOwnEndpoint(a) ==
    OrDefault(a.endpointUrl, "") # "" /\ a.name # ReservedName

Unconfigured_Never(endpointUrl) == FALSE

\* !endpointUrl
Unconfigured(endpointUrl) == OrDefault(endpointUrl, "") = ""

MockStart_Immediate(tr) ==
    [pc |-> "mockDelay",
     trace |-> tr \o <<Ev("code", T_default_generated_code)>>]

\* await new Promise((resolve) => setTimeout(resolve, 1000))
MockStart(tr) == [pc |-> "mockDelay", trace |-> tr]

Start_DefaultPosts(a, p) ==
    IF a.isMock THEN MockStart(Prologue)
    ELSE IF UsesOwnEndpoint(a)
    THEN IF NormalizedMethod(a) = Str(<<"g", "e", "t">>)
         THEN [pc |-> "awaitGet",
               trace |-> Prologue \o <<Ev("request", GetRequest(a, p))>>]
         ELSE [pc |-> "awaitPost",
               trace |-> Prologue \o <<Ev("request", PostRequest(a, p))>>]
    ELSE [pc |-> "awaitConfig", trace |-> Prologue]

\* handleGenerate from its prologue to its first await, or to its end when
\* the branch awaits nothing.
Start(a, p) ==
    IF a.isMock THEN MockStart(Prologue)
    ELSE IF UsesOwnEndpoint(a)
    THEN IF NormalizedMethod(a) = Str(<<"g", "e", "t">>)
         THEN [pc |-> "awaitGet",
               trace |-> Prologue \o <<Ev("request", GetRequest(a, p))>>]
         ELSE IF NormalizedMethod(a) = Str(<<"p", "o", "s", "t">>)
         THEN [pc |-> "awaitPost",
               trace |-> Prologue \o <<Ev("request", PostRequest(a, p))>>]
         ELSE [pc |-> "idle", trace |-> Finally(Prologue)]
    ELSE [pc |-> "awaitConfig", trace |-> Prologue]

genFrozen ==
    <<canUseGenAI, hasGenAIAssets, siteEndpoint, input, mode, syncVars, catVars,
      effectFault, siteVars>>

\* trace holds the events since the panel was last idle.
handleGenerate ==
    IF selectedAddOn = NoAddOn
    THEN UNCHANGED vars
    ELSE /\ call' = [addOn |-> selectedAddOn, prompt |-> prompt]
         /\ genPc' = Start(selectedAddOn, prompt).pc
         /\ trace' = (IF genPc = "idle" THEN <<>> ELSE trace)
                      \o Start(selectedAddOn, prompt).trace
         /\ loading' = (Start(selectedAddOn, prompt).pc # "idle")
         /\ UNCHANGED <<selectedAddOn, prompt, addonsLoaded, genFrozen>>

PressEnter_IgnoresLoading ==
    /\ ~effectFault
    /\ prompt # Empty /\ addonsLoaded
    /\ handleGenerate

\* The Generate button: disabled={!prompt || loading || !addonsLoaded ||
\* (!canUseGenAI && !hasGenAIAssets)}
ClickGenerate ==
    /\ ~effectFault
    /\ ~(prompt = Empty \/ loading \/ ~addonsLoaded
         \/ (~canUseGenAI /\ ~hasGenAIAssets))
    /\ handleGenerate

\* Enter in the prompt box: if (!loading && prompt && addonsLoaded)
PressEnter ==
    /\ ~effectFault
    /\ ~loading /\ prompt # Empty /\ addonsLoaded
    /\ handleGenerate

\* What the catalog's handlers leave alone.
catFrozen ==
    <<loading, canUseGenAI, siteEndpoint, call, genPc, trace, input, mode,
      syncVars, siteVars>>

\* The effects after the first render of a GenAI_Python panel: the
\* built-ins are there, so setAddonsLoaded(true), and the selection effect
\* runs on the render that follows.  An effect that throws takes the panel
\* down: none of its handlers runs after that.
LoadAddOns ==
    /\ ~effectFault
    /\ ~addonsLoaded
    /\ type = "GenAI_Python" /\ Len(builtInAddOns) > 0
    /\ addonsLoaded' = TRUE
    /\ selectedAddOn' = SelectionEffect(TRUE, selectedAddOn, stored,
                                        builtInAddOns, marketplaceAddOns)
    /\ effectFault' = EffectThrows(TRUE, stored)
    /\ UNCHANGED <<prompt, hasGenAIAssets, catVars, catFrozen>>

\* The marketplace query delivers data l: setAddonsLoaded(true), the merged
\* built-ins are recomputed and the selection effect runs.
MarketplaceArrives(l) ==
    /\ ~effectFault
    /\ effectFault' = EffectThrows(TRUE, stored)
    /\ marketplaceAddOns # Market(l)
    /\ marketplaceAddOns' = Market(l)
    /\ addonsLoaded' = TRUE
    /\ selectedAddOn' = SelectionEffect(TRUE, selectedAddOn, stored,
                                        builtInAddOns, Market(l))
    /\ UNCHANGED <<prompt, hasGenAIAssets, type, builtInAddOns, assets,
                   userAIAddons, stored, endpointLoad, catFrozen>>

\* loadBuiltInAddOnsEndpoint: getConfig resolves, setBuiltInAddOns gives a
\* new array, so the merged built-ins change and the selection effect
\* runs.
EndpointLoaded ==
    /\ ~effectFault
    /\ endpointLoad = "pending"
    /\ endpointLoad' = "done"
    /\ effectFault' = (type = "GenAI_Python"
                         /\ EffectThrows(addonsLoaded, stored))
    /\ IF type = "GenAI_Python"
       THEN /\ builtInAddOns' =
                  <<SdvCopilotBuiltIn(OrDefault(siteEndpoint, ""))>>
            /\ selectedAddOn' =
                  SelectionEffect(addonsLoaded, selectedAddOn, stored,
                      <<SdvCopilotBuiltIn(OrDefault(siteEndpoint, ""))>>,
                      marketplaceAddOns)
       ELSE UNCHANGED <<builtInAddOns, selectedAddOn>>
    /\ UNCHANGED <<prompt, addonsLoaded, hasGenAIAssets, type,
                   marketplaceAddOns, assets, userAIAddons, stored,
                   catFrozen>>

\* The assets query delivers list l; rs are the random id suffixes drawn.
AssetsArrive(l, rs) ==
    /\ ~effectFault
    /\ UNCHANGED effectFault
    /\ assets # [def |-> TRUE, list |-> l]
    /\ assets' = [def |-> TRUE, list |-> l]
    /\ IF type = "GenAI_Python"
       THEN /\ hasGenAIAssets' = (Len(PythonGenAIs(l)) > 0)
            /\ userAIAddons' =
                  [i \in DOMAIN PythonGenAIs(l) |->
                      UserAddOn(PythonGenAIs(l)[i], rs[i])]
       ELSE UNCHANGED <<hasGenAIAssets, userAIAddons>>
    /\ UNCHANGED <<selectedAddOn, prompt, addonsLoaded, type, builtInAddOns,
                   marketplaceAddOns, stored, endpointLoad, catFrozen>>

\* The entries DaGeneratorSelector is given to choose from.
Offered(builtIns, market, users, capable) ==
    LET merged == mergedBuiltInAddOns(builtIns, market)
        shown == OfferedMarketplace(market, merged, capable)
    IN {merged[i] : i \in DOMAIN merged}
       \cup {shown[i] : i \in DOMAIN shown}
       \cup {users[i] : i \in DOMAIN users}

\* onSelectedGeneratorChange: the user picks entry e in the selector, which
\* is rendered once addonsLoaded holds.
SelectGenerator(e) ==
    /\ ~effectFault
    /\ UNCHANGED effectFault
    /\ addonsLoaded
    /\ e \in Offered(builtInAddOns, marketplaceAddOns, userAIAddons,
                     canUseGenAI)
    /\ selectedAddOn' = e
    /\ stored' = StoredOf(e)
    /\ UNCHANGED <<prompt, addonsLoaded, hasGenAIAssets, type, builtInAddOns,
                   marketplaceAddOns, assets, userAIAddons, endpointLoad,
                   catFrozen>>

\* The user picks any of the entries on offer.
SelectOffered ==
    \E e \in Offered(builtInAddOns, marketplaceAddOns, userAIAddons,
                     canUseGenAI) : SelectGenerator(e)

\* The page is reloaded while no dispatch runs: the panel mounts anew with
\* its useState initial values; localStorage is what it was.
Reload ==
    /\ genPc = "idle"
    /\ selectedAddOn' = NoAddOn
    /\ prompt' = Empty
    /\ loading' = FALSE
    /\ addonsLoaded' = FALSE
    /\ hasGenAIAssets' = FALSE
    /\ builtInAddOns' = InitialBuiltIns(type)
    /\ marketplaceAddOns' = NoMarketplace
    /\ assets' = [def |-> FALSE, list |-> <<>>]
    /\ userAIAddons' = <<>>
    /\ endpointLoad' = "pending"
    /\ call' = NoCall
    /\ trace' = <<>>
    /\ effectFault' = FALSE
    /\ UNCHANGED <<type, stored, canUseGenAI, siteEndpoint, genPc, input,
                   mode, syncVars, siteVars>>

\* Textarea onChange: setPrompt; prompt is a dependency of the merged
\* built-ins, so they are recomputed and the selection effect runs.
ChangePrompt(p) ==
    /\ ~effectFault
    /\ effectFault' = EffectThrows(addonsLoaded, stored)
    /\ p # prompt
    /\ prompt' = p
    /\ selectedAddOn' = SelectionEffect(addonsLoaded, selectedAddOn, stored,
                                        builtInAddOns, marketplaceAddOns)
    /\ UNCHANGED <<addonsLoaded, hasGenAIAssets, catVars, catFrozen>>

\* An invocation ends: the finally block runs.
Finish(tr) ==
    /\ trace' = Finally(tr)
    /\ genPc' = "idle"
    /\ loading' = FALSE
    /\ UNCHANGED <<selectedAddOn, prompt, addonsLoaded, call, genFrozen>>

\* The mock branch's timer fires.
MockTimeout ==
    /\ genPc = "mockDelay"
    /\ Finish(trace \o <<Ev("timer", MockDelay),
                         Ev("code", T_default_generated_code)>>)

\* getConfig('GENAI_SDV_APP_ENDPOINT', 'site', undefined, '') resolves.
ConfigResolved ==
    /\ genPc = "awaitConfig"
    /\ IF Unconfigured(siteEndpoint)
       THEN Finish(Thrown(genPc, trace, NotConfigured))
       ELSE /\ trace' = trace \o <<Ev("request",
                   FallbackRequest(call.addOn, call.prompt, siteEndpoint))>>
            /\ genPc' = "awaitFallback"
            /\ UNCHANGED <<selectedAddOn, prompt, loading, addonsLoaded, call,
                           genFrozen>>

\* What the branch suspended at site does with a settled request.
Settle(site, a, tr, o) ==
    IF ~o.ok THEN Thrown(site, tr, ErrorOf(o))
    ELSE IF site = "awaitFallback"
    THEN IF o.body.isNull THEN Thrown(site, tr, TypeError)
         ELSE tr \o <<Ev("code", FallbackResult(o.body))>>
    ELSE tr \o <<Ev("code", OwnResult(a, o.body))>>

\* The request in flight is answered or rejected.
RequestSettled(o) ==
    /\ genPc \in {"awaitGet", "awaitPost", "awaitFallback"}
    /\ Finish(Settle(genPc, call.addOn, trace \o <<Ev("settled", o)>>, o))

\* The panel as mounted; what an earlier session left in localStorage is
\* any descriptor, or nothing.
InitGen ==
    /\ SyncInit
    /\ observe = {}
    /\ input = Empty
    /\ mode = "none"
    /\ selectedAddOn = NoAddOn
    /\ prompt = Empty
    /\ loading = FALSE
    /\ addonsLoaded = FALSE
    /\ canUseGenAI \in BOOLEAN
    /\ hasGenAIAssets = FALSE
    /\ siteEndpoint \in SiteEndpoints
    /\ call = NoCall
    /\ genPc = "idle"
    /\ trace = <<>>
    /\ effectFault = FALSE
    /\ \/ /\ type = "GenAI_Python"
          /\ stored \in {NoStored} \cup {StoredOf(a) : a \in AddOns}
       \/ /\ type = "GenAI_Dashboard"
          /\ stored = NoStored
    /\ builtInAddOns = InitialBuiltIns(type)
    /\ marketplaceAddOns = NoMarketplace
    /\ assets = [def |-> FALSE, list |-> <<>>]
    /\ userAIAddons = <<>>
    /\ endpointLoad = "pending"
    /\ SiteIdle

NextGen ==
    \/ LoadAddOns
    \/ MarketplaceArrives(<<>>)
    \/ \E p \in Prompts : ChangePrompt(p)
    \/ ClickGenerate
    \/ PressEnter
    \/ MockTimeout
    \/ ConfigResolved
    \/ \E o \in Outcomes : RequestSettled(o)

SpecGen == InitGen /\ [][NextGen]_vars

(***************************************************************************)
(* Catalog specification: what the marketplace may deliver                 *)
(***************************************************************************)
N_Market == <<"M", "a", "r", "k", "e", "t">>

N_MARKET == <<"M", "A", "R", "K", "E", "T">>

N_Other == <<"O", "t", "h", "e", "r">>

N_SDV_Copilot_Pro ==
    <<"S", "D", "V", "-", "C", "o", "p", "i", "l", "o", "t", " ", "P", "r", "o">>

N_My_sdv_COPILOT ==
    <<"M", "y", " ", "s", "d", "v", " ", "C", "O", "P", "I", "L", "O", "T">>

\* A marketplace add-on as the marketplace API returns it.
MarketEntry(id, name, builder) ==
    [isMock |-> FALSE, id |-> id, name |-> name, endpointUrl |-> "https://m",
     apiKey |-> "mk", method |-> Str(M_POST), requestField |-> Undefined,
     responseField |-> Undefined, samples |-> Undef,
     customPayload |-> builder]

MarketEntries ==
    {MarketEntry("sdv-copilot-builtin", N_Market, NoBuilder),
     MarketEntry("sdv-copilot-builtin", N_Other, MarketBuilder),
     MarketEntry("m3", ReservedName, NoBuilder),
     MarketEntry("m4", N_SDV_Copilot_Pro, NoBuilder),
     MarketEntry("m5", N_Gen, NoBuilder),
     MarketEntry("m6", N_MARKET, NoBuilder),
     MarketEntry("m7", N_My_sdv_COPILOT, NoBuilder)}

\* Longest marketplace list drawn.
MaxMarket == 2

MarketLists == UNION {[1..n -> MarketEntries] : n \in 0..MaxMarket}

InitCatalog ==
    /\ SyncInit
    /\ observe = {}
    /\ input = Empty
    /\ mode = "none"
    /\ selectedAddOn = NoAddOn
    /\ prompt = Empty
    /\ loading = FALSE
    /\ addonsLoaded = FALSE
    /\ canUseGenAI \in BOOLEAN
    /\ hasGenAIAssets = FALSE
    /\ siteEndpoint \in SiteEndpoints
    /\ call = NoCall
    /\ genPc = "idle"
    /\ trace = <<>>
    /\ effectFault = FALSE
    /\ type \in ComponentTypes
    /\ stored = NoStored
    /\ builtInAddOns = InitialBuiltIns(type)
    /\ marketplaceAddOns = NoMarketplace
    /\ assets = [def |-> FALSE, list |-> <<>>]
    /\ userAIAddons = <<>>
    /\ endpointLoad = "pending"
    /\ SiteIdle

NextCatalog ==
    \/ LoadAddOns
    \/ EndpointLoaded
    \/ \E l \in MarketLists : MarketplaceArrives(l)

SpecCatalog == InitCatalog /\ [][NextCatalog]_vars

(***************************************************************************)
(* Assets specification: what the assets query may deliver                 *)
(***************************************************************************)
D_full ==
    <<P("{"), S("url"), P(":"), S("https://u"), P(","),
      S("method"), P(":"), S(M_GET), P(","),
      S("requestField"), P(":"), S("q"), P("}")>>

D_empty == <<P("{"), P("}")>>

D_null == <<P("null")>>

D_truncated == <<P("{"), S("url"), P(":"), S("https://u")>>

D_word == <<P("oops")>>

Asset(t, n, d) == [type |-> t, name |-> n, data |-> d]

AssetSet ==
    {Asset("GENAI-PYTHON", <<"m", "i", "n", "e">>, D_full),
     Asset("GENAI-PYTHON", <<"b", "a", "d">>, D_truncated),
     Asset("GENAI-PYTHON", <<>>, D_null),
     Asset("GENAI-PYTHON", <<"w">>, D_word),
     Asset("GENAI-PYTHON", <<"e">>, D_empty),
     Asset("GENAI-WIDGET", <<"o">>, D_full)}

\* Longest assets list drawn.
MaxAssets == 2

AssetLists == UNION {[1..n -> AssetSet] : n \in 0..MaxAssets}

RandomSuffixes == {"k3x9q1", "zz0a7b"}

InitAssets ==
    /\ InitCatalog
    /\ canUseGenAI

\* The assets query answers once.
NextAssets ==
    \/ LoadAddOns
    \/ \E l \in AssetLists :
          \E rs \in [1..Len(l) -> RandomSuffixes] :
              ~assets.def /\ AssetsArrive(l, rs)

SpecAssets == InitAssets /\ [][NextAssets]_vars

(***************************************************************************)
(* Selection specification: restore, user-driven selection, reload         *)
(***************************************************************************)
\* What an earlier session may have left in localStorage: nothing, the
\* built-in as it then was, or a marketplace entry that no longer exists.
StoredBefore ==
    {NoStored,
     StoredOf(SdvCopilotBuiltIn("https://old")),
     StoredOf(MarketEntry("gone", N_Other, NoBuilder))}

SelectMarketLists ==
    {<<>>,
     <<MarketEntry("m5", N_Gen, NoBuilder)>>,
     <<MarketEntry("sdv-copilot-builtin", N_Market, NoBuilder),
       MarketEntry("m5", N_Gen, NoBuilder)>>}

SelectAssetLists ==
    {<<Asset("GENAI-PYTHON", <<"m", "i", "n", "e">>, D_full)>>}

InitSelect ==
    /\ SyncInit
    /\ observe = {}
    /\ input = Empty
    /\ mode = "none"
    /\ selectedAddOn = NoAddOn
    /\ prompt = Empty
    /\ loading = FALSE
    /\ addonsLoaded = FALSE
    /\ canUseGenAI \in BOOLEAN
    /\ hasGenAIAssets = FALSE
    /\ siteEndpoint = "https://sdv"
    /\ call = NoCall
    /\ genPc = "idle"
    /\ trace = <<>>
    /\ effectFault = FALSE
    /\ type \in ComponentTypes
    /\ stored \in StoredBefore
    /\ builtInAddOns = InitialBuiltIns(type)
    /\ marketplaceAddOns = NoMarketplace
    /\ assets = [def |-> FALSE, list |-> <<>>]
    /\ userAIAddons = <<>>
    /\ endpointLoad = "pending"
    /\ SiteIdle

NextSelect ==
    \/ LoadAddOns
    \/ EndpointLoaded
    \/ \E l \in SelectMarketLists : MarketplaceArrives(l)
    \/ \E l \in SelectAssetLists :
          \E rs \in [1..Len(l) -> RandomSuffixes] : AssetsArrive(l, rs)
    \/ \E p \in {Empty, T_hi} : ChangePrompt(p)
    \/ SelectOffered
    \/ Reload

SpecSelect == InitSelect /\ [][NextSelect]_vars

(***************************************************************************)
(* Session specification: what localStorage may hold when the panel        *)
(* mounts, and a second session writing the same localStorage item         *)
(***************************************************************************)
\* A truncated object and a bare word: neither is JSON.
T_truncated == <<"{">>

RawTexts == {Empty, T_truncated, T_python}

SessionStoredBefore ==
    {NoStored, StoredOf(SdvCopilotBuiltIn("https://old"))}
    \cup {StoredText(r) : r \in RawTexts}

\* What the other session's user may pick.
OtherSelections ==
    {SdvCopilotBuiltIn("https://sdv"), MarketEntry("m5", N_Gen, NoBuilder)}

\* onSelectedGeneratorChange in another session of the same browser:
\* localStorage is shared, the component state is not.
OtherSessionSelects(e) ==
    /\ stored # StoredOf(e)
    /\ stored' = StoredOf(e)
    /\ UNCHANGED <<selectedAddOn, prompt, addonsLoaded, hasGenAIAssets, type,
                   builtInAddOns, marketplaceAddOns, assets, userAIAddons,
                   endpointLoad, effectFault, catFrozen>>

InitSession ==
    /\ SyncInit
    /\ observe = {}
    /\ input = Empty
    /\ mode = "none"
    /\ selectedAddOn = NoAddOn
    /\ prompt = Empty
    /\ loading = FALSE
    /\ addonsLoaded = FALSE
    /\ canUseGenAI \in BOOLEAN
    /\ hasGenAIAssets = FALSE
    /\ siteEndpoint = "https://sdv"
    /\ call = NoCall
    /\ genPc = "idle"
    /\ trace = <<>>
    /\ effectFault = FALSE
    /\ type = "GenAI_Python"
    /\ stored \in SessionStoredBefore
    /\ builtInAddOns = InitialBuiltIns(type)
    /\ marketplaceAddOns = NoMarketplace
    /\ assets = [def |-> FALSE, list |-> <<>>]
    /\ userAIAddons = <<>>
    /\ endpointLoad = "pending"
    /\ SiteIdle

NextSession ==
    \/ LoadAddOns
    \/ EndpointLoaded
    \/ \E l \in SelectMarketLists : MarketplaceArrives(l)
    \/ \E p \in {Empty, T_hi} : ChangePrompt(p)
    \/ SelectOffered
    \/ \E e \in OtherSelections : OtherSessionSelects(e)
    \/ Reload

SpecSession == InitSession /\ [][NextSession]_vars

(***************************************************************************)
(* Public site configuration (PublicConfigSection, appended to             *)
(* PrototypeTabCode.tsx; the predefined lists are in                       *)
(* pages/SiteConfigManagement): delete one config, factory reset           *)
(***************************************************************************)
PredefinedConfig(k, c) == [key |-> k, category |-> c]

\* The key and the category of each entry; "" where no category is given.
PREDEFINED_SITE_CONFIGS ==
    <<PredefinedConfig("SITE_LOGO_WIDE", ""),
      PredefinedConfig("SITE_TITLE", ""),
      PredefinedConfig("SITE_DESCRIPTION", ""),
      PredefinedConfig("PRIVACY_POLICY_URL", ""),
      PredefinedConfig("TERMS_OF_SERVICE_URL", ""),
      PredefinedConfig("RUNTIME_SERVER_URL", ""),
      PredefinedConfig("RUNTIME_SERVER_CONFIG", ""),
      PredefinedConfig("SHOW_CODE_API_PANEL", ""),
      PredefinedConfig("DEFAULT_MARKETPLACE_URL", ""),
      PredefinedConfig("SUPPORT_CENTER_URL", ""),
      PredefinedConfig("ENABLE_LEARNING_MODE", ""),
      PredefinedConfig("LEARNING_MODE_URL", ""),
      PredefinedConfig("NAV_BAR_ACTIONS", ""),
      PredefinedConfig("GENAI_SDV_APP_ENDPOINT", "genai"),
      PredefinedConfig("SHOW_SDV_PROTOPILOT_BUTTON", "genai"),
      PredefinedConfig("GENAI_MARKETPLACE_URL", "genai")>>

\* PREDEFINED_SITE_CONFIGS.filter(c => c.category === 'genai').map(c => c.key)
PREDEFINED_GENAI_CONFIG_KEYS ==
    {PREDEFINED_SITE_CONFIGS[i].key :
        i \in {j \in DOMAIN PREDEFINED_SITE_CONFIGS :
                  PREDEFINED_SITE_CONFIGS[j].category = "genai"}}

isGenAIKey(key) == key \in PREDEFINED_GENAI_CONFIG_KEYS

isPredefined_PublicOnly(key) ==
    \E i \in DOMAIN PREDEFINED_SITE_CONFIGS :
        /\ PREDEFINED_SITE_CONFIGS[i].key = key
        /\ PREDEFINED_SITE_CONFIGS[i].category # "genai"

\* PREDEFINED_SITE_CONFIGS.some(c => c.key === config.key)
isPredefined(key) ==
    \E i \in DOMAIN PREDEFINED_SITE_CONFIGS :
        PREDEFINED_SITE_CONFIGS[i].key = key

publicKeys_AllPredefined ==
    {PREDEFINED_SITE_CONFIGS[i].key : i \in DOMAIN PREDEFINED_SITE_CONFIGS}

\* handleFactoryReset's publicKeys
publicKeys ==
    {PREDEFINED_SITE_CONFIGS[i].key :
        i \in {j \in DOMAIN PREDEFINED_SITE_CONFIGS :
                  ~isGenAIKey(PREDEFINED_SITE_CONFIGS[j].key)}}
    \cup {"NAV_BAR_ACTIONS"}

\* A stored config; id "" stands for a record without an id.
Config(id, key) == [id |-> id, key |-> key]

\* The records a store is drawn from: public, the action list, GenAI, an
\* auth key, two keys of the installation's own, and two without an id.
ConfigPool ==
    <<Config("c1", "SITE_TITLE"),
      Config("c2", "NAV_BAR_ACTIONS"),
      Config("c3", "GENAI_SDV_APP_ENDPOINT"),
      Config("c4", "PUBLIC_VIEWING"),
      Config("c5", "CUSTOM_FLAG"),
      Config("", "SITE_DESCRIPTION"),
      Config("", "CUSTOM_DRAFT"),
      Config("c8", "SUPPORT_CENTER_URL")>>

\* The sub-lists of the pool, in pool order.
Stores ==
    {SelectSeq(ConfigPool, LAMBDA c : c \in chosen) :
        chosen \in SUBSET {ConfigPool[i] : i \in DOMAIN ConfigPool}}

\* deleteConfigById(id) answered with ok: the store afterwards.
deleteConfigById(db, id, ok) ==
    IF ok THEN SelectSeq(db, LAMBDA c : c.id # id) ELSE db

Called(id, ok) == [id |-> id, ok |-> ok]

SiteOp(k, config, confirmed, snapshot) ==
    [kind |-> k, key |-> config.key, id |-> config.id,
     confirmed |-> confirmed, listed |-> FALSE, snapshot |-> snapshot]

\* What the handlers of the section leave alone.
siteFrozen ==
    <<selectedAddOn, prompt, loading, addonsLoaded, canUseGenAI,
      hasGenAIAssets, siteEndpoint, call, genPc, trace, catVars, effectFault,
      input, mode, syncVars>>

\* handleDeleteConfig(config); confirmed is window.confirm's answer, ok is
\* how the store answers the delete.
handleDeleteConfig(config, confirmed, ok) ==
    /\ sitePc = "idle"
    /\ siteOp' = SiteOp("delete", config, confirmed, dbConfigs)
    /\ IF isPredefined(config.key) \/ ~confirmed \/ config.id = ""
       THEN /\ deleteRequests' = {}
            /\ UNCHANGED dbConfigs
       ELSE /\ deleteRequests' = {Called(config.id, ok)}
            /\ dbConfigs' = deleteConfigById(dbConfigs, config.id, ok)
    /\ UNCHANGED <<resetQueue, sitePc, siteFrozen>>

\* The user asks to delete one of the stored configs.
DeleteConfig ==
    \E i \in DOMAIN dbConfigs, confirmed \in BOOLEAN, ok \in BOOLEAN :
        handleDeleteConfig(dbConfigs[i], confirmed, ok)

\* handleFactoryReset up to the loop: window.confirm, then getConfigs, which
\* answers with the stored configs or rejects (outer catch: a toast).
handleFactoryReset(confirmed, listed) ==
    /\ sitePc = "idle"
    /\ siteOp' = [SiteOp("reset", Config("", ""), confirmed, dbConfigs)
                    EXCEPT !.listed = listed]
    /\ deleteRequests' = {}
    /\ IF confirmed /\ listed
       THEN resetQueue' = dbConfigs /\ sitePc' = "reset"
       ELSE UNCHANGED <<resetQueue, sitePc>>
    /\ UNCHANGED <<dbConfigs, siteFrozen>>

FactoryReset ==
    \E confirmed \in BOOLEAN, listed \in BOOLEAN :
        handleFactoryReset(confirmed, listed)

\* One turn of the loop over allConfigs.results; a rejected delete is caught
\* inside the loop (console.warn) and the loop goes on.
ResetVisit(ok) ==
    LET config == Head(resetQueue)
    IN  /\ sitePc = "reset"
        /\ resetQueue # <<>>
        /\ IF config.key \notin publicKeys \/ config.id = ""
           THEN UNCHANGED <<dbConfigs, deleteRequests>>
           ELSE /\ deleteRequests' =
                      deleteRequests \cup {Called(config.id, ok)}
                /\ dbConfigs' = deleteConfigById(dbConfigs, config.id, ok)
        /\ resetQueue' = Tail(resetQueue)
        /\ UNCHANGED <<sitePc, siteOp, siteFrozen>>

\* The loop is over: the 'Restored' toast, and the page reload is scheduled.
ResetDone ==
    /\ sitePc = "reset"
    /\ resetQueue = <<>>
    /\ sitePc' = "idle"
    /\ siteOp' = [siteOp EXCEPT !.kind = "resetDone"]
    /\ UNCHANGED <<dbConfigs, resetQueue, deleteRequests, siteFrozen>>

InitSite ==
    /\ SyncInit
    /\ observe = {}
    /\ input = Empty
    /\ mode = "none"
    /\ selectedAddOn = NoAddOn
    /\ prompt = Empty
    /\ loading = FALSE
    /\ addonsLoaded = FALSE
    /\ canUseGenAI = FALSE
    /\ hasGenAIAssets = FALSE
    /\ siteEndpoint = ""
    /\ call = NoCall
    /\ genPc = "idle"
    /\ trace = <<>>
    /\ effectFault = FALSE
    /\ CatIdle
    /\ dbConfigs \in Stores
    /\ resetQueue = <<>>
    /\ sitePc = "idle"
    /\ deleteRequests = {}
    /\ siteOp = NoSiteOp

NextSite ==
    \/ DeleteConfig
    \/ FactoryReset
    \/ \E ok \in BOOLEAN : ResetVisit(ok)
    \/ ResetDone

SpecSite == InitSite /\ [][NextSite]_vars

(***************************************************************************)
(* Persistence specification: a document is open, the buffer was edited,   *)
(* the user edits no more, the interval timer keeps firing and the remote  *)
(* store answers every write, rejecting only while a retry can follow      *)
(***************************************************************************)
\* The state after document d was opened and the buffer was set to t.
InitLive ==
    /\ \E d \in Docs, t \in TextSet :
          /\ prototype = [open |-> TRUE, id |-> d, code |-> InitialRemote[d]]
          /\ code = Str(t)
          /\ savedCode = PrototypeEffect(prototype).savedCode
          /\ editorType = PrototypeEffect(prototype).editorType
    /\ ticker = 0
    /\ remote = InitialRemote
    /\ inflight = {}
    /\ issued = 0
    /\ lastOp = Op("edit", code, NoRequest, FALSE)
    /\ hb = [valid |-> FALSE, seq |-> 0, state |-> "none", edited |-> TRUE,
             prev |-> NoTick]
    /\ lastOk = NoRequest
    /\ uncaught = FALSE
    /\ observe = {"hb"}
    /\ input = Empty
    /\ mode = "none"
    /\ GenIdle

\* The store rejects a write only while another write can still be issued.
PersistFailRetried(r) ==
    /\ issued < MaxWrites
    /\ ticker < MaxTicks
    /\ PersistFail(r)

NextLive ==
    \/ Heartbeat
    \/ EditorBlur
    \/ \E t \in TextSet : ExplicitSave(t)
    \/ \E r \in inflight : PersistOk(r)
    \/ \E r \in inflight : PersistFailRetried(r)

\* setInterval fires every 3000 ms for as long as the component is mounted,
\* and every updatePrototypeService call settles.
SpecLive ==
    /\ InitLive
    /\ [][NextLive]_vars
    /\ WF_vars(Heartbeat)
    /\ \A n \in 1..MaxWrites, d \in Docs, t \in TextSet,
          o \in {"tick", "save", "blur"} :
            WF_vars(PersistOk(Request(n, d, t, o)))

(***************************************************************************)
(* Claims                                                                  *)
(***************************************************************************)
\* prototype?.id of the state, spelled out for the claims
DocumentOpen == prototype.open /\ prototype.id # ""

\* The step issues exactly one remote write, of text t for document d.
IssuesOne(t, d) ==
    /\ issued' = issued + 1
    /\ \E r \in inflight' \ inflight :
          /\ inflight' = inflight \cup {r}
          /\ r.text = t
          /\ r.id = d

IssuesNone == inflight' = inflight /\ issued' = issued

\* C1: when the remote update for text T succeeds, code, savedCode and the
\* active prototype's code are all T (and the store holds T); the step that
\* issues the write changes none of the three.
C1_PersistSuccess ==
    [][/\ lastOp'.kind = "persistOk" =>
            /\ code' = Str(lastOp'.text)
            /\ savedCode' = Str(lastOp'.text)
            /\ prototype'.open
            /\ prototype'.id = lastOp'.id
            /\ prototype'.code = Str(lastOp'.text)
            /\ remote'[lastOp'.id] = Str(lastOp'.text)
       /\ lastOp'.kind \in {"tick", "save", "blur"} =>
            UNCHANGED <<code, savedCode, prototype>>]_vars

C1_Witness ==
    /\ lastOp.kind = "persistOk"
    /\ lastOp.text = T_python
    /\ code = Str(T_python)
    /\ savedCode = Str(T_python)
    /\ prototype.code = Str(T_python)

\* C2: when the remote update fails, code, savedCode and the active
\* prototype keep their values (as do the store and the editor type), and
\* no exception escapes saveCodeToDb.
C2_PersistFailure ==
    [][lastOp'.kind = "persistFail" =>
          /\ UNCHANGED <<code, savedCode, prototype, remote, editorType>>
          /\ ~uncaught']_vars

C2_Witness ==
    /\ lastOp.kind = "persistFail"
    /\ ~Falsy(code)
    /\ code # savedCode
    /\ remote[lastOp.id] # Str(lastOp.text)

\* C3: a heartbeat issues no write when code is empty/undefined or equals
\* savedCode; otherwise, with a document open, it issues exactly one write,
\* of code, for the open document's id.
C3_HeartbeatDirtyCheck ==
    [][lastOp'.kind = "tick" =>
          IF ~code.def \/ code.s = Empty \/ code = savedCode
          THEN IssuesNone
          ELSE DocumentOpen => IssuesOne(code.s, prototype.id)]_vars

C3_Witness ==
    /\ lastOp.kind = "tick"
    /\ lastOp.wrote
    /\ lastOp.text = code.s
    /\ lastOp.id = "B"
    /\ ticker = 2
    /\ issued = 1

\* C4: an explicit save with a non-empty value issues a write of that value
\* while a document is open, also when the value equals savedCode; with an
\* empty value it issues none.
C4_ExplicitSaveAlwaysPersists ==
    [][lastOp'.kind = "save" =>
          IF lastOp'.arg.s = Empty
          THEN IssuesNone
          ELSE DocumentOpen => IssuesOne(lastOp'.arg.s, prototype.id)]_vars

C4_Witness ==
    /\ lastOp.kind = "save"
    /\ lastOp.wrote
    /\ savedCode = Str(lastOp.text)
    /\ code = savedCode

C6_DocumentSwitch ==
    lastOp.kind = "switch" =>
        IF prototype.open
        THEN LET persisted == IF prototype.id \in Docs
                              THEN remote[prototype.id]
                              ELSE prototype.code
                 text == IF persisted.def THEN persisted.s ELSE Empty
             IN  /\ code = Str(text)
                 /\ savedCode = Str(text)
                 /\ editorType = getEditorType(text)
        ELSE /\ code = Undef
             /\ savedCode = Undef
             /\ editorType = "code"

C6_Witness ==
    /\ lastOp.kind = "switch"
    /\ prototype.id = "B"
    /\ remote["B"] = Str(T_python)
    /\ code = Str(T_python)
    /\ editorType = "code"

\* C7: the editor type changes only in a step that makes a different
\* document active.
C7_ModeChangesOnlyOnSwitch ==
    [][editorType' # editorType => lastOp'.kind = "switch"]_vars

(***************************************************************************)
(* The reference rule for C8: the JSON array texts, generated from the     *)
(* JSON grammar by length (RFC 8259 restricted to Alphabet), independently *)
(* of the recogniser above.                                                *)
(***************************************************************************)
Spaces(n) == [i \in 1..n |-> " "]

Ones(n) == [i \in 1..n |-> "1"]

StringChars == Alphabet \ {"\""}

\* value texts of length n that are not arrays
RefScalars(n) ==
    (IF n >= 1 THEN {Ones(n)} ELSE {})
    \cup (IF n >= 2
          THEN {<<"\"">> \o m \o <<"\"">> : m \in [1..(n - 2) -> StringChars]}
               \cup {<<"{">> \o Spaces(n - 2) \o <<"}">>}
          ELSE {})

\* Ref[n] = [values, elems]: the value texts of length n, and the non-empty
\* element lists (values separated by commas, white space around each) of
\* length n.
RECURSIVE Ref(_)
Ref(n) ==
    LET arrays == IF n < 2 THEN {}
                  ELSE {<<"[">> \o b \o <<"]">> :
                          b \in {Spaces(n - 2)} \cup Ref(n - 2).elems}
        values == RefScalars(n) \cup arrays
        valuesOf(k) == IF k = n THEN values ELSE Ref(k).values
        padded(m) == UNION {{Spaces(a) \o v \o Spaces(m - a - k) :
                               v \in valuesOf(k)} :
                             <<a, k>> \in {x \in (0..m) \X (1..m) :
                                             x[1] + x[2] <= m}}
        elems == padded(n)
                 \cup UNION {{q \o <<",">> \o e :
                                q \in padded(k), e \in Ref(n - k - 1).elems} :
                              k \in 1..(n - 2)}
    IN  [values |-> values, elems |-> elems, arrays |-> arrays]

\* the texts of at most n characters that JSON defines as an array
RefArrayTexts(n) ==
    UNION {{Spaces(x[1]) \o v \o Spaces(x[3]) : v \in Ref(x[2]).arrays} :
             x \in {y \in (0..n) \X (2..n) \X (0..n) :
                      y[1] + y[2] + y[3] <= n}}

RefProject == RefArrayTexts(MaxLen)

T_print == <<"p", "r", "i", "n", "t", "(", "1", ")">>

\* C8: getEditorType returns "project" exactly for the texts that JSON
\* defines as an array, and "code" for every other text: the empty text,
\* blank texts, unparseable texts and parseable non-arrays.
C8_ModeClassification ==
    /\ mode # "none" =>
          /\ mode \in {"project", "code"}
          /\ mode = "project" <=> input \in RefProject
          /\ Trim(input) = Empty => mode = "code"
    /\ getEditorType(T_array) = "project"
    /\ getEditorType(Empty) = "code"
    /\ getEditorType(T_print) = "code"

C8_Witness ==
    /\ mode = "project"
    /\ input = <<" ", "[", "1", "]">>

\* C9: with no prototype, or a prototype without id, neither a heartbeat
\* nor an explicit save (nor a blur) issues a write; no write ever carries
\* an empty id.
C9_NoWriteWithoutDocument ==
    /\ (lastOp.kind \in {"tick", "save", "blur"} /\ ~DocumentOpen) =>
          ~lastOp.wrote
    /\ \A r \in inflight : r.id \in Docs

C9_Witness ==
    /\ lastOp.kind = "tick"
    /\ prototype.open
    /\ prototype.id = ""
    /\ ~Falsy(code)
    /\ code # savedCode
    /\ ~lastOp.wrote

C11_NoCancellationOnSwitch ==
    [][(lastOp'.kind = "persistOk"
        /\ (~prototype.open \/ prototype.id # lastOp'.id)) =>
          /\ code' = Str(lastOp'.text)
          /\ savedCode' = Str(lastOp'.text)
          /\ prototype' = [open |-> TRUE, id |-> lastOp'.id,
                           code |-> Str(lastOp'.text)]
          /\ remote'[lastOp'.id] = Str(lastOp'.text)]_vars

C11_Witness ==
    /\ lastOp.kind = "persistOk"
    /\ lastOp.stale
    /\ lastOp.id = "A"
    /\ prototype.id = "A"
    /\ code = Str(T_python)
    /\ savedCode = Str(T_python)

(***************************************************************************)
(* Claims about the generation dispatcher                                  *)
(***************************************************************************)
\* Where events of kind k sit in a trace.
At(tr, k) == {i \in DOMAIN tr : tr[i].ev = k}

\* An invocation with a selected descriptor has started / has completed.
Invoked == trace # <<>>

Completed == Invoked /\ genPc = "idle"

\* The requests an invocation has sent so far.
Requests == {trace[i].val : i \in At(trace, "request")}

\* The texts handed to onCodeGenerated after the prologue's clearing call.
Emitted == {trace[i].val : i \in At(trace, "code") \ {1}}

\* C12: generating(true) is reported before any request; while the
\* invocation runs neither generating(false) nor finished is reported; on
\* every completion path generating(false) and then finished(true) are
\* reported exactly once each, after every request, response and timer.
C12_StatusProtocol ==
    Invoked =>
      /\ \E i \in At(trace, "loading") :
            /\ trace[i].val = TRUE
            /\ \A j \in At(trace, "request") : i < j
      /\ loading = (genPc # "idle")
      /\ genPc # "idle" =>
            /\ At(trace, "finished") = {}
            /\ \A i \in At(trace, "loading") : trace[i].val = TRUE
      /\ genPc = "idle" =>
            /\ At(trace, "finished") = {Len(trace)}
            /\ trace[Len(trace)].val = TRUE
            /\ trace[Len(trace) - 1] = Ev("loading", FALSE)
            /\ Cardinality({i \in At(trace, "loading") :
                               trace[i].val = FALSE}) = 1
            /\ Cardinality(At(trace, "request"))
                  = Cardinality(At(trace, "settled"))

\* A request was rejected and the invocation completed.
C12_Witness ==
    /\ Completed
    /\ \E i \in At(trace, "settled") : ~trace[i].val.ok
    /\ trace[Len(trace)] = Ev("finished", TRUE)

\* The reserved product name, 'SDV Copilot'.
SdvCopilot == <<"S", "D", "V", " ", "C", "o", "p", "i", "l", "o", "t">>

\* The captured descriptor sends the invocation down the fallback branch.
TakesFallback ==
    /\ Invoked
    /\ ~call.addOn.isMock
    /\ (call.addOn.endpointUrl = "" \/ call.addOn.name = SdvCopilot)

\* The rejections the invocation's requests ended with.
Rejections == {trace[i].val : i \in {j \in At(trace, "settled") :
                                         ~trace[j].val.ok}}

\* C13: when the request of a dispatch is rejected, exactly one user-facing
\* notification is produced, carrying the server's message if there is one
\* and the generic message otherwise, and the invocation still completes.
C13_TransportFailureNotified ==
    (Completed /\ Rejections # {}) =>
        \E j \in At(trace, "toast") :
            /\ At(trace, "toast") = {j}
            /\ \E o \in Rejections :
                  trace[j].val = (IF o.message = Undefined
                                  THEN "Error generating AI content"
                                  ELSE o.message)

\* C14: on the fallback branch with no fallback endpoint configured, no
\* request is sent and no text is handed to the caller.
C14_UnconfiguredSendsNothing ==
    (TakesFallback /\ siteEndpoint = "") =>
        /\ Requests = {}
        /\ Emitted = {}

C14_Witness ==
    /\ Completed
    /\ TakesFallback
    /\ siteEndpoint = ""
    /\ call.addOn.name = SdvCopilot
    /\ call.addOn.endpointUrl = ""
    /\ \E i \in At(trace, "log") : trace[i].val = NotConfigured

\* C15: when the fallback endpoint is not configured, the completed
\* invocation has shown the user an error, not only logged one.
C15_UnconfiguredVisible ==
    (Completed /\ TakesFallback /\ siteEndpoint = "") =>
        At(trace, "toast") # {}

\* The captured descriptor sends the invocation down the GET or POST branch.
TakesOwnEndpoint ==
    /\ Invoked
    /\ ~call.addOn.isMock
    /\ call.addOn.endpointUrl # ""
    /\ call.addOn.name # SdvCopilot

\* The bodies of the successful responses the invocation received.
Responses == {trace[i].val.body : i \in {j \in At(trace, "settled") :
                                             trace[j].val.ok}}

\* responseFieldName with its default
FieldAsked ==
    IF call.addOn.responseField \in {Undefined, ""} THEN "data"
    ELSE call.addOn.responseField

\* The diagnostic text for body b.
Diagnostic(b) ==
    <<"Error: Receive incorrect format data\r\n">> \o StringifyPretty(b)

EmittedOnce == Cardinality(At(trace, "code") \ {1}) = 1

\* C16 as stated: a body that has the field yields the field's value, a
\* body without it yields the diagnostic, one text per successful response.
C16_FieldExists ==
    (Completed /\ TakesOwnEndpoint) =>
        \A b \in Responses :
            /\ EmittedOnce
            /\ Emitted = {IF ~b.isNull /\ Field(b, FieldAsked).has
                          THEN TextOf(Field(b, FieldAsked).v)
                          ELSE Diagnostic(b)}

\* C16 (amended): a body whose field is truthy yields the field's value;
\* a body without the field, or with an empty one, or no body at all,
\* yields the diagnostic; one text per successful response.
C16_FieldTruthy ==
    (Completed /\ TakesOwnEndpoint) =>
        \A b \in Responses :
            /\ EmittedOnce
            /\ Emitted = {IF /\ ~b.isNull
                             /\ Field(b, FieldAsked).has
                             /\ Field(b, FieldAsked).v # ""
                          THEN <<Field(b, FieldAsked).v>>
                          ELSE Diagnostic(b)}

\* The response is {data: ""} and the default field is asked for.
C16_Witness ==
    /\ Completed
    /\ TakesOwnEndpoint
    /\ call.addOn.responseField = Undefined
    /\ Responses = {[isNull |-> FALSE, content |-> Absent,
                     data |-> Present(""), out |-> Absent]}
    /\ Emitted = {<<"Error: Receive incorrect format data\r\n", "{",
                    "\n    ", "\"data\": ", "\"\"", "\n", "}">>}

(***************************************************************************)
(* decodeURIComponent, as the receiving server applies it                  *)
(***************************************************************************)
CharOf(h) ==
    CASE h = <<"2", "0">> -> " "
      [] h = <<"2", "5">> -> "%"
      [] h = <<"2", "6">> -> "&"
      [] h = <<"3", "D">> -> "="
      [] h = <<"3", "F">> -> "?"

RECURSIVE decodeURIComponent(_)
decodeURIComponent(s) ==
    IF s = <<>> THEN <<>>
    ELSE IF Head(s) = "%"
    THEN <<CharOf(SubSeq(s, 2, 3))>> \o decodeURIComponent(SubSeq(s, 4, Len(s)))
    ELSE <<Head(s)>> \o decodeURIComponent(Tail(s))

\* The captured descriptor asks for GET at its own endpoint.
IsGet ==
    /\ TakesOwnEndpoint
    /\ call.addOn.method = Str(<<"G", "E", "T">>)

\* C17: a GET descriptor with its own endpoint sends exactly one request,
\* a GET to endpointUrl ? requestFieldName = encoded prompt, where the
\* encoded prompt has no query delimiter and decodes to the prompt, with
\* Authorization equal to the raw token; nothing is POSTed.
C17_GetShape ==
    IsGet =>
      /\ Cardinality(At(trace, "request")) = 1
      /\ \A r \in Requests :
            /\ r.verb = "GET"
            /\ r.authorization = call.addOn.apiKey
            /\ SubSeq(r.url, 1, 4) =
                  <<call.addOn.endpointUrl, "?",
                    IF call.addOn.requestField \in {Undefined, ""}
                    THEN "prompt" ELSE call.addOn.requestField, "=">>
            /\ \A i \in 5..Len(r.url) : r.url[i] \notin {" ", "&", "=", "?"}
            /\ decodeURIComponent(SubSeq(r.url, 5, Len(r.url))) = call.prompt

C17_Witness ==
    /\ Completed
    /\ IsGet
    /\ call.prompt = <<"a", " ", "&", "b">>
    /\ \E r \in Requests :
          r.url = <<"https://e", "?", "q", "=",
                    "a", "%", "2", "0", "%", "2", "6", "b">>
    /\ call.addOn.responseField = "out"
    /\ Emitted = {<<"CODE:out">>}

\* The one request the fallback branch may send.
FallbackPostOnly ==
    /\ genPc = "awaitConfig" => At(trace, "request") = {}
    /\ genPc # "awaitConfig" =>
          /\ Cardinality(At(trace, "request")) = 1
          /\ Requests =
                {[verb |-> "POST",
                  url |-> <<siteEndpoint>>,
                  authorization |-> NoHeader,
                  contentType |-> "application/json",
                  body |-> [systemMessage |->
                                IF call.addOn.samples.def
                                THEN call.addOn.samples.s ELSE <<>>,
                            message |-> call.prompt]]}

\* C18 as stated: one POST of {systemMessage, message} without an
\* Authorization header, and the result is the content field if the body
\* has one, else the data field if it has one, else the serialized body.
C18_FallbackFieldPresent ==
    (TakesFallback /\ siteEndpoint # "") =>
      /\ FallbackPostOnly
      /\ Completed =>
            \A b \in Responses :
                /\ EmittedOnce
                /\ Emitted = {IF ~b.isNull /\ b.content.has
                              THEN TextOf(b.content.v)
                              ELSE IF ~b.isNull /\ b.data.has
                              THEN TextOf(b.data.v)
                              ELSE Stringify(b)}

\* C18 (amended): one POST of {systemMessage, message} without an
\* Authorization header; the result is the content field if it is
\* non-empty, else the data field if it is non-empty, else the serialized
\* body; a null body yields no result at all.
C18_FallbackFieldTruthy ==
    (TakesFallback /\ siteEndpoint # "") =>
      /\ FallbackPostOnly
      /\ Completed =>
            \A b \in Responses :
                IF b.isNull THEN Emitted = {}
                ELSE /\ EmittedOnce
                     /\ Emitted = {IF b.content.has /\ b.content.v # ""
                                   THEN <<b.content.v>>
                                   ELSE IF b.data.has /\ b.data.v # ""
                                   THEN <<b.data.v>>
                                   ELSE Stringify(b)}

\* The response is {content: ""}: the serialized body is the result.
C18_Witness ==
    /\ Completed
    /\ TakesFallback
    /\ siteEndpoint = "https://sdv"
    /\ call.addOn.endpointUrl = "https://e"
    /\ Responses = {[isNull |-> FALSE, content |-> Present(""),
                     data |-> Absent, out |-> Absent]}
    /\ Emitted = {<<"{", "\"content\":", "\"\"", "}">>}

\* C19: a non-mock invocation sends its requests to the descriptor's own
\* endpoint with the descriptor's token exactly when endpointUrl is
\* non-empty and the name is not "SDV Copilot", and then never consults
\* the site configuration; otherwise it consults the site configuration
\* and sends only to the fallback endpoint, without the token.
C19_BranchRouting ==
    (Invoked /\ ~call.addOn.isMock) =>
      IF call.addOn.endpointUrl # "" /\ call.addOn.name # SdvCopilot
      THEN /\ genPc \notin {"awaitConfig", "awaitFallback"}
           /\ \A r \in Requests :
                 /\ r.url[1] = call.addOn.endpointUrl
                 /\ r.authorization = call.addOn.apiKey
           /\ call.addOn.method \in {Str(M_GET), Str(M_Post)} =>
                 Requests # {}
           /\ \A i \in At(trace, "log") : trace[i].val # NotConfigured
      ELSE /\ genPc \notin {"awaitGet", "awaitPost"}
           /\ \A r \in Requests :
                 /\ r.url = <<siteEndpoint>>
                 /\ r.url[1] # call.addOn.endpointUrl
                 /\ r.authorization = NoHeader
           /\ (siteEndpoint # "" /\ genPc # "awaitConfig") => Requests # {}

\* The reserved product with an endpoint of its own went to the fallback.
C19_Witness ==
    /\ Completed
    /\ call.addOn.name = SdvCopilot
    /\ call.addOn.endpointUrl = "https://e"
    /\ call.addOn.method = Str(M_GET)
    /\ \E r \in Requests : r.url = <<"https://sdv">> /\ r.verb = "POST"

\* C20: a mock descriptor sends no request, emits nothing while the delay
\* runs, and once the 1000 ms timer has fired emits the canned text, once.
C20_MockDispatch ==
    (Invoked /\ call.addOn.isMock) =>
      /\ At(trace, "request") = {}
      /\ genPc \in {"mockDelay", "idle"}
      /\ genPc = "mockDelay" => Emitted = {} /\ At(trace, "timer") = {}
      /\ genPc = "idle" =>
            /\ EmittedOnce
            /\ Emitted = {<<"default_generated_code">>}
            /\ \E i \in At(trace, "timer") :
                  /\ trace[i].val = 1000
                  /\ \A j \in At(trace, "code") \ {1} : i < j

C20_Witness ==
    /\ Completed
    /\ call.addOn.isMock
    /\ call.addOn.endpointUrl = "https://e"
    /\ call.prompt = <<"a", " ", "&", "b">>
    /\ Emitted = {<<"default_generated_code">>}
    /\ At(trace, "request") = {}

\* C21: a descriptor routed to its own endpoint whose method is neither
\* get nor post sends no request, emits no text, raises no notification and
\* logs nothing; the invocation is over at once, with finished reported.
C21_UnsupportedMethod ==
    (TakesOwnEndpoint /\ call.addOn.method \in {Undef, Str(M_PUT)}) =>
        /\ genPc = "idle"
        /\ ~loading
        /\ trace = <<Ev("code", <<>>), Ev("loading", TRUE),
                     Ev("loading", FALSE), Ev("finished", TRUE)>>

C21_Witness ==
    /\ Completed
    /\ TakesOwnEndpoint
    /\ call.addOn.method = Str(<<"P", "U", "T">>)
    /\ call.addOn.endpointUrl = "https://e"
    /\ call.prompt = <<"h", "i">>
    /\ Requests = {}
    /\ Emitted = {}
    /\ At(trace, "finished") # {}

\* generating(true) reports of the trace: one per dispatch started since
\* the panel was last idle.
Starts == {i \in At(trace, "loading") : trace[i].val = TRUE}

\* C22: through the button and the Enter key no dispatch starts while the
\* generating flag is true: at most one dispatch has started since the
\* panel was last idle, it sent at most one request and produced at most
\* one result, and the flag is true exactly while it runs.
C22_SingleFlight ==
    /\ Cardinality(Starts) <= 1
    /\ Cardinality(At(trace, "request")) <= 1
    /\ Cardinality(At(trace, "code") \ {1}) <= 1
    /\ At(trace, "code") # {} => 1 \in At(trace, "code")
    /\ loading = (genPc # "idle")

\* A request is in flight while both triggers are otherwise armed.
C22_Witness ==
    /\ loading
    /\ genPc = "awaitPost"
    /\ prompt # <<>>
    /\ addonsLoaded
    /\ canUseGenAI
    /\ Cardinality(Starts) = 1

\* C23: without the capability and without user-defined generator assets
\* no dispatch is ever started.
C23_CapabilityGate ==
    (~canUseGenAI /\ ~hasGenAIAssets) => ~Invoked

(***************************************************************************)
(* Claims about the add-on catalog                                         *)
(***************************************************************************)
\* The merged built-ins and the visible marketplace of the state.
Merged == mergedBuiltInAddOns(builtInAddOns, marketplaceAddOns)

Visible == filteredMarketplaceAddOns(marketplaceAddOns, Merged)

\* The marketplace entries with the id of built-in i, in list order.
MatchesOf(i) ==
    SelectSeq(marketplaceAddOns.list,
              LAMBDA m : m.id = builtInAddOns[i].id)

\* C27: the merged list has one entry per built-in, in built-in order;
\* where the first marketplace entry with a built-in's id has no
\* payloadBuilder, the merged entry is that marketplace entry with the
\* built-in's payloadBuilder; a built-in without a match is kept.
C27_MergeKeepsBuiltInBuilder ==
    /\ Len(Merged) = Len(builtInAddOns)
    /\ \A i \in DOMAIN builtInAddOns :
          /\ Merged[i].id = builtInAddOns[i].id
          /\ MatchesOf(i) = <<>> => Merged[i] = builtInAddOns[i]
          /\ (MatchesOf(i) # <<>>
                /\ MatchesOf(i)[1].customPayload = NoBuilder) =>
                /\ Merged[i].customPayload = builtInAddOns[i].customPayload
                /\ Merged[i].name = MatchesOf(i)[1].name
                /\ Merged[i].endpointUrl = MatchesOf(i)[1].endpointUrl
                /\ Merged[i].apiKey = MatchesOf(i)[1].apiKey

C27_Witness ==
    /\ marketplaceAddOns.def
    /\ Len(marketplaceAddOns.list) = 2
    /\ marketplaceAddOns.list[1].id = "m5"
    /\ marketplaceAddOns.list[2].id = "sdv-copilot-builtin"
    /\ marketplaceAddOns.list[2].customPayload = NoBuilder
    /\ Len(Merged) = 1
    /\ Merged[1].name = <<"M", "a", "r", "k", "e", "t">>
    /\ Merged[1].endpointUrl = "https://m"
    /\ Merged[1].customPayload = BuiltInBuilder

\* C28: where the first marketplace entry with a built-in's id supplies a
\* payloadBuilder of its own, the merged entry carries that one.
C28_MergeKeepsMarketBuilder ==
    \A i \in DOMAIN builtInAddOns :
        (MatchesOf(i) # <<>> /\ MatchesOf(i)[1].customPayload # NoBuilder) =>
            Merged[i].customPayload = MatchesOf(i)[1].customPayload

\* Lower-cased names of the merged built-ins.
MergedNames == {ToLowerCase(Merged[i].name) : i \in DOMAIN Merged}

MergedIds == {Merged[i].id : i \in DOMAIN Merged}

Reserved(n) ==
    \/ Includes(n, <<"s", "d", "v", " ", "c", "o", "p", "i", "l", "o", "t">>)
    \/ Includes(n, <<"s", "d", "v", "-", "c", "o", "p", "i", "l", "o", "t">>)

\* C29: the visible marketplace is the marketplace list, in order, without
\* the entries whose id is a merged built-in's, whose lower-cased name is a
\* merged built-in's lower-cased name, or whose lower-cased name contains
\* "sdv copilot" or "sdv-copilot"; no visible entry has a built-in's id
\* and "SDV-Copilot Pro" is never visible.
C29_VisibilityFilter ==
    /\ Visible = SelectSeq(marketplaceAddOns.list,
                    LAMBDA m : /\ m.id \notin MergedIds
                               /\ ToLowerCase(m.name) \notin MergedNames
                               /\ ~Reserved(ToLowerCase(m.name)))
    /\ \A i \in DOMAIN Visible :
          /\ \A j \in DOMAIN builtInAddOns :
                Visible[i].id # builtInAddOns[j].id
          /\ Visible[i].name # N_SDV_Copilot_Pro
          /\ Visible[i].name \in {N_Gen, N_MARKET, N_Market, N_Other}
    /\ ToLowerCase(N_SDV_Copilot_Pro) =
          <<"s", "d", "v", "-", "c", "o", "p", "i", "l", "o", "t", " ",
            "p", "r", "o">>

\* "SDV-Copilot Pro" and "Gen" arrived; only "Gen" is visible.
C29_Witness ==
    /\ type = "GenAI_Python"
    /\ marketplaceAddOns.def
    /\ Len(marketplaceAddOns.list) = 2
    /\ marketplaceAddOns.list[1].name = N_SDV_Copilot_Pro
    /\ marketplaceAddOns.list[2].name = N_Gen
    /\ Len(Visible) = 1
    /\ Visible[1].id = "m5"

\* The asset's data is not the JSON text of an object.
Unparseable(a) ==
    a.data \in {<<P("{"), S("url"), P(":"), S("https://u")>>,
                <<P("oops")>>, <<P("null")>>}

\* The GENAI-PYTHON assets of the state, in order.
PythonAssets == SelectSeq(assets.list, LAMBDA a : a.type = "GENAI-PYTHON")

\* Every GENAI-PYTHON asset has its descriptor, in order.
OnePerAsset ==
    /\ Len(userAIAddons) = Len(PythonAssets)
    /\ hasGenAIAssets = (Len(PythonAssets) > 0)
    /\ \A i \in DOMAIN PythonAssets :
          /\ userAIAddons[i].name =
                (IF PythonAssets[i].name = <<>>
                 THEN <<"M", "y", " ", "p", "y", "t", "h", "o", "n", " ",
                        "g", "e", "n", "A", "I">>
                 ELSE PythonAssets[i].name)
          /\ ~Unparseable(PythonAssets[i]) =>
                userAIAddons[i].requestField \in {"prompt", "q"}

CatalogIds ==
    {x.id : x \in Offered(builtInAddOns, marketplaceAddOns, userAIAddons,
                          TRUE)}

\* C24: on the step that makes the catalog loaded, a remembered selection
\* becomes the active selection exactly as stored; with none remembered
\* the first merged built-in does; with no built-ins the selection stays
\* empty.  Until then the selection is empty.
C24_RestoreOnLoad ==
    [][/\ ~addonsLoaded => selectedAddOn = NoAddOn
       /\ (~addonsLoaded /\ addonsLoaded') =>
             IF stored.kind = "json"
             THEN selectedAddOn' = stored.value
             ELSE IF Len(Merged') > 0
             THEN selectedAddOn' = Merged'[1]
             ELSE selectedAddOn' = NoAddOn]_vars

\* The built-in as an earlier session stored it is active, although the
\* merged built-in of this session has another endpoint.
C24_Witness ==
    /\ addonsLoaded
    /\ endpointLoad = "done"
    /\ selectedAddOn.id = "sdv-copilot-builtin"
    /\ selectedAddOn.endpointUrl = "https://old"
    /\ Merged[1].id = "sdv-copilot-builtin"
    /\ Merged[1].endpointUrl = "https://sdv"
    /\ stored.value = selectedAddOn

\* C25: while the remembered selection's id is the id of no entry of the
\* loaded catalog, the active selection is the first merged built-in.
C25_UnresolvableNotRestored ==
    (/\ addonsLoaded
     /\ stored.kind = "json"
     /\ stored.value.id \notin CatalogIds
     /\ Len(Merged) > 0) =>
        selectedAddOn = Merged[1]

\* C26 as stated: a user-driven selection makes the chosen entry active
\* and writes it to the store, and a reload restores that entry.
C26_RoundTripExact ==
    [][stored' # stored =>
          /\ selectedAddOn' \in Offered(builtInAddOns, marketplaceAddOns,
                                        userAIAddons, canUseGenAI)
          /\ stored'.kind = "json"
          /\ RestoreSelection(NoAddOn, stored',
                 mergedBuiltInAddOns(InitialBuiltIns(type), NoMarketplace))
                = selectedAddOn']_vars

\* C26 (amended): a user-driven selection makes the chosen entry active
\* and writes it to the store without its payloadBuilder, and that, the
\* entry without its payloadBuilder, is what a reload restores.
C26_RoundTripWithoutBuilder ==
    [][stored' # stored =>
          /\ selectedAddOn' \in Offered(builtInAddOns, marketplaceAddOns,
                                        userAIAddons, canUseGenAI)
          /\ stored'.kind = "json"
          /\ stored'.value.customPayload = NoBuilder
          /\ RestoreSelection(NoAddOn, stored',
                 mergedBuiltInAddOns(InitialBuiltIns(type), NoMarketplace))
                = [selectedAddOn' EXCEPT !.customPayload = NoBuilder]]_vars

\* After a reload the merged entry the user had picked is active again,
\* without its payloadBuilder, before the marketplace has arrived.
C26_Witness ==
    /\ addonsLoaded
    /\ ~marketplaceAddOns.def
    /\ selectedAddOn.id = "sdv-copilot-builtin"
    /\ selectedAddOn.name = <<"M", "a", "r", "k", "e", "t">>
    /\ selectedAddOn.customPayload = NoBuilder
    /\ stored = StoredOf_KeepsFunction(selectedAddOn)

(***************************************************************************)
(* Claims about the session's selection and the selector's entries         *)
(***************************************************************************)
\* C31: on the step that makes the catalog loaded while localStorage holds
\* text that is no JSON, nothing escapes the selection effect and the first
\* merged built-in becomes the active selection.
C31_MalformedContained ==
    [][(~addonsLoaded /\ addonsLoaded' /\ stored.kind = "text") =>
          /\ ~effectFault'
          /\ Len(Merged') > 0
          /\ selectedAddOn' = Merged'[1]]_vars

\* The step is onSelectedGeneratorChange of this session: an entry on offer
\* becomes the selection and is written through, nothing else moves.
UserPick ==
    /\ prompt' = prompt
    /\ builtInAddOns' = builtInAddOns
    /\ marketplaceAddOns' = marketplaceAddOns
    /\ selectedAddOn' \in Offered(builtInAddOns, marketplaceAddOns,
                                  userAIAddons, canUseGenAI)
    /\ stored' = StoredOf(selectedAddOn')

\* C36: once the catalog is loaded, a step of the session after which
\* another entry (another id) is the active selection is a user-driven
\* selection of that session.
C36_SelectionStable ==
    [][(/\ addonsLoaded /\ addonsLoaded'
        /\ selectedAddOn'.id # selectedAddOn.id) => UserPick]_vars

\* What the selector shows of the state.
OfferedNow ==
    Offered(builtInAddOns, marketplaceAddOns, userAIAddons, canUseGenAI)

\* C37: without the capability the selector's marketplace list is empty and
\* the entries on offer are exactly the merged built-ins and the
\* user-defined entries.
C37_MarketplaceHidden ==
    ~canUseGenAI =>
        /\ OfferedMarketplace(marketplaceAddOns, Merged, canUseGenAI) = <<>>
        /\ OfferedNow = {Merged[i] : i \in DOMAIN Merged}
                          \cup {userAIAddons[i] : i \in DOMAIN userAIAddons}

\* Without the capability, with a marketplace entry that the filter lets
\* through and a user-defined entry: the selector has the built-in and the
\* user-defined entry.
C37_Witness ==
    /\ ~canUseGenAI
    /\ addonsLoaded
    /\ Len(Visible) > 0
    /\ Len(userAIAddons) > 0
    /\ Len(Merged) > 0
    /\ Merged[1] \in OfferedNow
    /\ userAIAddons[1] \in OfferedNow
    /\ Visible[1] \notin OfferedNow

C33_EditFrame ==
    [][/\ lastOp'.kind = "edit" =>
             /\ code' = lastOp'.arg
             /\ UNCHANGED <<savedCode, editorType, prototype, remote>>
       /\ savedCode' # savedCode =>
             lastOp'.kind \in {"persistOk", "switch"}]_vars

\* An edit has made the buffer differ from what is persisted.
C33_Witness ==
    /\ lastOp.kind = "edit"
    /\ code = Str(T_python)
    /\ savedCode = Str(T_array)
    /\ prototype.code = Str(T_array)
    /\ remote[prototype.id] = Str(T_array)
    /\ editorType = "project"

\* C34: when a write of the open document succeeds right after an edit that
\* was made while the write was in flight, code still holds the edit.
C34_NoLostEdit ==
    [][(/\ lastOp.kind = "edit"
        /\ lastOp'.kind = "persistOk"
        /\ lastOp'.id = prototype.id) => code' = code]_vars

\* The buffer of the open document is non-empty and is not what was
\* persisted last.
Dirty == DocumentOpen /\ ~Falsy(code) /\ code # savedCode

\* The buffer, savedCode and the store's copy of the open document agree.
Clean == DocumentOpen /\ savedCode = code /\ remote[prototype.id] = code

\* C35: with a document open and no further edit, a non-empty buffer that
\* differs from savedCode leads to savedCode, code and the store holding
\* the same text, also when a write was rejected on the way.
C35_EventualPersistence == Dirty ~> Clean

\* The write of the heartbeat before was rejected, the write of the last
\* heartbeat succeeded, and the three copies agree.
C35_Witness ==
    /\ lastOp.kind = "persistOk"
    /\ hb.prev.valid /\ hb.prev.state = "fail"
    /\ hb.state = "ok"
    /\ Clean

(***************************************************************************)
(* Claims about the public site configuration                              *)
(***************************************************************************)
\* Key k is the key of an entry of PREDEFINED_SITE_CONFIGS.
PredefinedKey(k) ==
    \E i \in DOMAIN PREDEFINED_SITE_CONFIGS :
        PREDEFINED_SITE_CONFIGS[i].key = k

\* Key k is the key of an entry of category 'genai'.
GenAICategory(k) ==
    \E i \in DOMAIN PREDEFINED_SITE_CONFIGS :
        /\ PREDEFINED_SITE_CONFIGS[i].key = k
        /\ PREDEFINED_SITE_CONFIGS[i].category = "genai"

\* The store as the last handler found it, without the config of id d.
SnapshotWithout(d) == SelectSeq(siteOp.snapshot, LAMBDA c : c.id # d)

\* C38: after handleDeleteConfig on a config with a predefined key no
\* delete was requested and the store is as it was; a delete is requested
\* only for a config with an id whose key is not predefined, after the user
\* confirmed, and only that config leaves the store.
C38_PredefinedNotDeleted ==
    siteOp.kind = "delete" =>
        /\ PredefinedKey(siteOp.key) =>
              (deleteRequests = {} /\ dbConfigs = siteOp.snapshot)
        /\ deleteRequests # {} =>
              /\ ~PredefinedKey(siteOp.key)
              /\ siteOp.id # ""
              /\ siteOp.confirmed
              /\ \A r \in deleteRequests : r.id = siteOp.id
        /\ dbConfigs = IF Called(siteOp.id, TRUE) \in deleteRequests
                       THEN SnapshotWithout(siteOp.id)
                       ELSE siteOp.snapshot

\* A confirmed delete of the stored GenAI endpoint config was refused.
C38_Witness ==
    /\ siteOp.kind = "delete"
    /\ siteOp.key = "GENAI_SDV_APP_ENDPOINT"
    /\ siteOp.id = "c3"
    /\ siteOp.confirmed
    /\ deleteRequests = {}
    /\ \E i \in DOMAIN dbConfigs : dbConfigs[i].id = "c3"
    /\ dbConfigs = siteOp.snapshot

\* Key k is one the public factory reset is to delete.
ResetKey(k) ==
    (PredefinedKey(k) /\ ~GenAICategory(k)) \/ k = "NAV_BAR_ACTIONS"

\* C39: during and after handleFactoryReset a delete is requested only for
\* configs with a predefined non-GenAI key or NAV_BAR_ACTIONS, every other
\* config the store held is still there and nothing was added; without the
\* user's confirmation nothing is requested; when the handler is done a
\* delete was requested for every such config that has an id, whichever
\* deletes were rejected, and exactly the configs whose delete succeeded
\* are gone.
C39_FactoryResetFrame ==
    siteOp.kind \in {"reset", "resetDone"} =>
        /\ \A r \in deleteRequests :
              \E i \in DOMAIN siteOp.snapshot :
                  /\ siteOp.snapshot[i].id = r.id
                  /\ ResetKey(siteOp.snapshot[i].key)
        /\ dbConfigs =
              SelectSeq(siteOp.snapshot,
                        LAMBDA c : ~(/\ ResetKey(c.key)
                                     /\ Called(c.id, TRUE) \in deleteRequests))
        /\ ~siteOp.confirmed => deleteRequests = {}
        /\ siteOp.kind = "resetDone" =>
              \A i \in DOMAIN siteOp.snapshot :
                  (ResetKey(siteOp.snapshot[i].key)
                   /\ siteOp.snapshot[i].id # "") =>
                      \E ok \in BOOLEAN :
                          Called(siteOp.snapshot[i].id, ok) \in deleteRequests

\* A reset is done: the delete of SITE_TITLE was rejected, the action list
\* and SUPPORT_CENTER_URL after it are gone, the GenAI endpoint, the auth
\* key and the installation's own key are still stored.
C39_Witness ==
    /\ siteOp.kind = "resetDone"
    /\ Called("c1", FALSE) \in deleteRequests
    /\ Called("c2", TRUE) \in deleteRequests
    /\ Called("c8", TRUE) \in deleteRequests
    /\ dbConfigs = <<Config("c1", "SITE_TITLE"),
                     Config("c3", "GENAI_SDV_APP_ENDPOINT"),
                     Config("c4", "PUBLIC_VIEWING"),
                     Config("c5", "CUSTOM_FLAG")>>
====
